---- MODULE Spec2Model ----
(***************************************************************************)
(* Model of the computer-use agent of tmcclell/AI-Testing:                 *)
(*   - cua/agent.py                  Agent (turn conductor, retry loop)    *)
(*   - cua/computer_use_assistant.py ComputerUseAssistant (task loop)      *)
(*   - cua/scaler.py                 Scaler (logical/physical coordinates) *)
(*   - cua/local_computer.py         LocalComputer (the Computer it wraps) *)
(* An awaited coroutine is modelled step by step: pc is the position of    *)
(* Agent.continue_task, opc the position of execute_instructions.          *)
(***************************************************************************)
EXTENDS Integers, Sequences, FiniteSets, TLC

\* ------------------------------------------------------------------ bounds
\* longest output list of a Turn returned by the remote model
MaxItems == 2
\* number of continue_task() calls a free caller makes (specification Spec)
MaxInvocations == 2
\* largest max_actions configured for execute_instructions (SpecOrch)
MaxActionsBound == 3
\* longest drag path handed to the Scaler (SpecScaler)
MaxPath == 2
\* number of action methods a client calls on one Scaler (SpecScaler)
MaxReceived == 2
\* number of add_tool calls made on one Agent (SpecRegistry)
MaxRegistrations == 3
\* number of add_entry calls since the history was last empty (SpecContext)
MaxEntries == 4
\* largest max_history a ContextManager is constructed with (SpecContext)
MaxHistoryBound == 2
\* largest count given to get_recent_history (SpecContext)
MaxCount == 3
\* largest iteration count of a swap test (SpecRun)
MaxIterations == 2

\* ------------------------------------------------------- program constants
\* retry = 10
RetryBudget == 10
\* wait = int(match.group(1)) if match else 10
DefaultWait == 10
\* max_size = 2048
max_size == 2048

\* ------------------------------------------------------------------- state
VARIABLES
    response,              \* Agent.response (the current Turn), None when absent
    pc,                    \* position of continue_task: idle, items, attempt
    previous_response,     \* local of continue_task
    previous_response_id,  \* local of continue_task
    inputs,                \* local of continue_task
    itemIdx,               \* position of the for loop over previous_response.output
    user_message,          \* argument of continue_task
    wait,                  \* local of continue_task
    retry,                 \* local of continue_task
    outcome,               \* how the last continue_task ended: running, returned, or the exception raised
    executed,              \* Computer: the action methods invoked for the Turn last handled
    executedCount,         \* Computer: number of action methods invoked so far
    nextId,                \* remote model: id of the next response it creates
    calls,                 \* remote model: responses.create calls of the current continue_task
    lastErr,               \* exception of the latest attempt ("none" when it returned a response)
    lastReply,             \* what the latest responses.create call did (kind, status, message)
    invocations,           \* continue_task calls made so far by the free caller
    opc,                   \* position of execute_instructions
    max_actions,           \* config.max_actions
    actions_taken,         \* local of execute_instructions
    user_input,            \* local of execute_instructions
    result,                \* ExecutionResult returned by execute_instructions
    continueCalls,         \* continue_task calls made by execute_instructions
    autoplay,              \* config.autoplay
    stop,                  \* why the loop of execute_instructions was left
    oneActionTurns,        \* every Turn of this run carried exactly one computer call
    shotAttempts,          \* final screenshot captures attempted by execute_instructions
    consulted,             \* the gates called by the latest loop body, and their answers
    configured,            \* the dimensions argument the Scaler was constructed with
    size,                  \* Scaler.size (the logical size), <<>> when None
    screen_width,          \* Scaler.screen_width, -1 until a screenshot is taken
    screen_height,         \* Scaler.screen_height, -1 until a screenshot is taken
    computerSize,          \* LocalComputer.size, <<>> when None
    physical,              \* the size of the real screen
    shot,                  \* the latest screenshot the Scaler produced
    forwarded,             \* the latest call the Scaler made on the Computer
    dimsLog,               \* results of the dimensions reads since the latest screenshot
    scaledFrom,            \* the Computer dimensions that Scaler.dimensions scaled, if any
    received,              \* Computer: number of action methods the Scaler invoked on it
    tools,                 \* Agent.tools: the registered names with descriptor and handler, in dict order
    handled,               \* the tool handlers invoked by the current continue_task
    screenshots,           \* screenshots captured by the current continue_task
    registered,            \* the add_tool calls made so far, in order
    lastTools,             \* what the latest get_tools call returned
    config,                \* the Config object created, NoConfig when there is none
    configArgs,            \* the field values given to Config(...), the defaults included
    configRaised,          \* the message of the ValueError of Config(...), "none" without one
    rpc,                   \* position of main() and AgentOrchestrator.run()
    current_iteration,     \* AgentOrchestrator.current_iteration
    successful_swaps,      \* local of _execute_swap_test
    should_abort,          \* AgentOrchestrator.should_abort
    executeActionCalls,    \* ActionExecutor: number of execute_action calls
    simulated,             \* actions logged as [DRY RUN] by _execute_ai_action
    failedIterations,      \* swap iterations of this run that raised
    test_result,           \* what run() returned, NoTestResult before
    cleaned,               \* _cleanup_modules has run
    history,               \* ContextManager.history
    max_history,           \* ContextManager.max_history
    current_scenario,      \* ContextManager.current_scenario
    cm_iteration,          \* ContextManager.current_iteration
    added,                 \* the entries given to add_entry so far, in order
    recent,                \* what the latest get_recent_history call returned
    context                \* what the latest build_context call returned

agentVars == <<response, pc, previous_response, previous_response_id, inputs,
               itemIdx, user_message, wait, retry, outcome>>
envVars   == <<executed, executedCount, nextId, calls, lastErr, lastReply, invocations>>
orchVars  == <<opc, max_actions, actions_taken, user_input, result, continueCalls,
               autoplay, stop, oneActionTurns, shotAttempts, consulted>>
scalerVars == <<configured, size, screen_width, screen_height, computerSize,
                physical, shot, forwarded, dimsLog, scaledFrom, received>>
registryVars == <<tools, registered, lastTools>>
toolVars  == <<registryVars, handled, screenshots>>
runVars   == <<config, configArgs, configRaised, rpc, current_iteration, successful_swaps,
               should_abort, executeActionCalls, simulated, failedIterations,
               test_result, cleaned>>
ctxVars   == <<history, max_history, current_scenario, cm_iteration, added, recent,
               context>>
coreVars  == <<runVars, ctxVars>>
vars      == <<agentVars, envVars, orchVars, scalerVars, toolVars, coreVars>>

\* ----------------------------------------------------------- data model
\* self.response = None
None == [id |-> 0, status |-> "none", output |-> <<>>]

NoAction == [type |-> "none", args |-> "none"]

\* the actions the remote model proposes: kind and parameters
ActionSet == { [type |-> "click",      args |-> "x1y1"],
               [type |-> "type",       args |-> "hello"],
               [type |-> "screenshot", args |-> "none"] }

\* one output item of a response (call_id is set when the Turn is built)
ComputerCall(a, checks) ==
    [type |-> "computer_call", role |-> "none", call_id |-> 0, name |-> "none",
     action |-> a, pending_safety_checks |-> checks]

OutputMessage ==
    [type |-> "message", role |-> "assistant", call_id |-> 0, name |-> "none",
     action |-> NoAction, pending_safety_checks |-> <<>>]

ReasoningItem ==
    [type |-> "reasoning", role |-> "none", call_id |-> 0, name |-> "none",
     action |-> NoAction, pending_safety_checks |-> <<>>]

\* a function call of the remote model for the tool of that name
FunctionCall(n) ==
    [type |-> "function_call", role |-> "none", call_id |-> 0, name |-> n,
     action |-> NoAction, pending_safety_checks |-> <<>>]

\* an output item of a kind continue_task has no branch for
OtherItem ==
    [type |-> "web_search_call", role |-> "none", call_id |-> 0, name |-> "none",
     action |-> NoAction, pending_safety_checks |-> <<>>]

ItemShapes ==
    { ComputerCall([type |-> "click", args |-> "x1y1"], <<>>),
      ComputerCall([type |-> "type", args |-> "hello"], <<"malicious_instructions">>),
      ComputerCall([type |-> "screenshot", args |-> "none"], <<>>),
      OutputMessage,
      ReasoningItem }

\* the output lists the remote model may return, items numbered by position
OutputLists ==
    UNION { [1..n -> ItemShapes] : n \in 0..MaxItems }

WithCallIds(out) ==
    [i \in 1..Len(out) |-> [out[i] EXCEPT !.call_id = i]]

\* a response object of the remote model
Turn(id, status, out) ==
    [id |-> id, status |-> status, output |-> WithCallIds(out)]

\* e.message of a RateLimitError: "<text>Please try again in <digits><unit>"
\* when phrase is TRUE, a text without that phrase otherwise
RateLimitMessages ==
    { [phrase |-> TRUE,  digits |-> <<7>>,    unit |-> "s"],
      [phrase |-> TRUE,  digits |-> <<1, 2>>, unit |-> "s"],
      [phrase |-> TRUE,  digits |-> <<2, 0>>, unit |-> "ms"],
      [phrase |-> FALSE, digits |-> <<>>,     unit |-> ""] }

NoMessage == [phrase |-> FALSE, digits |-> <<>>, unit |-> "none"]

NoReply == [kind |-> "none", status |-> "none", message |-> NoMessage]

\* what one responses.create call may do
Outcomes ==
    { [kind |-> "response", status |-> s, output |-> o, message |-> NoMessage] :
          s \in {"completed", "in_progress"}, o \in OutputLists }
    \cup { [kind |-> "RateLimitError", status |-> "none", output |-> <<>>, message |-> m] :
          m \in RateLimitMessages }
    \cup { [kind |-> k, status |-> "none", output |-> <<>>, message |-> NoMessage] :
          k \in {"InternalServerError", "APIConnectionError"} }

\* ------------------------------------------------------ Agent properties
requires_user_input_without_turn(r) ==
    r = None \/ Len(r.output) = 0

\* Agent.requires_user_input
requires_user_input(r) ==
    IF r = None \/ Len(r.output) = 0
    THEN TRUE
    ELSE LET item == r.output[Len(r.output)]
         IN  item.type = "message" /\ item.role = "assistant"

\* Agent.requires_consent
requires_consent(r) ==
    IF r = None
    THEN FALSE
    ELSE \E i \in 1..Len(r.output) : r.output[i].type = "computer_call"

IsComputerCall(item) == item.type = "computer_call"

RECURSIVE Flatten(_)
Flatten(ss) ==
    IF ss = <<>> THEN <<>> ELSE Head(ss) \o Flatten(Tail(ss))

\* Agent.pending_safety_checks
pending_safety_checks(r) ==
    IF r = None
    THEN <<>>
    ELSE LET items == SelectSeq(r.output, IsComputerCall)
         IN  Flatten([i \in 1..Len(items) |-> items[i].pending_safety_checks])

\* Agent.actions: (action, action_args) per computer call; src records the
\* call the entry was extracted from
actions(r) ==
    IF r = None
    THEN <<>>
    ELSE LET items == SelectSeq(r.output, IsComputerCall)
         IN  [i \in 1..Len(items) |->
                 [action      |-> items[i].action.type,
                  action_args |-> items[i].action.args,
                  src         |-> items[i].call_id]]

\* -------------------------------------------------------- retry policy
RECURSIVE DigitsToInt(_)
\* int(match.group(1))
DigitsToInt(ds) ==
    IF ds = <<>> THEN 0
    ELSE 10 * DigitsToInt(SubSeq(ds, 1, Len(ds) - 1)) + ds[Len(ds)]

\* re.search(r"Please try again in (\d+)s", e.message)
RegexMatches(m) ==
    m.phrase /\ Len(m.digits) > 0 /\ m.unit = "s"

ParseWait_ignores_match(m) == DefaultWait

\* wait = int(match.group(1)) if match else 10
ParseWait(m) ==
    IF RegexMatches(m) THEN DigitsToInt(m.digits) ELSE DefaultWait

\* value of wait after an attempt that ended as o
WaitAfter(w, o) ==
    IF o.kind = "RateLimitError" THEN ParseWait(o.message) ELSE w

StatusCompleted_unchecked(r) == TRUE

\* assert self.response.status == "completed"
StatusCompleted(r) == r.status = "completed"

Reraises_swallows_last(exc, r) ==
    exc \notin {"RateLimitError", "InternalServerError"}

Reraises_retries_all(exc, r) ==
    IF exc \in {"RateLimitError", "InternalServerError", "APIConnectionError"}
    THEN r = 0
    ELSE TRUE

\* does exception exc leave the retry loop, with r attempts left
Reraises(exc, r) ==
    IF exc \in {"RateLimitError", "InternalServerError"}
    THEN r = 0
    ELSE TRUE

\* the exception of an attempt: the SDK error, or the failed assert
ExceptionOf(o, newResp) ==
    IF o.kind = "response"
    THEN IF StatusCompleted(newResp) THEN "none" ELSE "AssertionError"
    ELSE o.kind

\* ------------------------------------------------------------ Agent steps
\* Agent.start_task
start_task_effect == response' = None

\* entry of continue_task: locals set before the loop over the output items
ContinueEnter(msg) ==
    /\ pc = "idle"
    /\ user_message' = msg
    /\ inputs' = <<>>
    /\ previous_response' = response
    /\ previous_response_id' = IF response # None THEN response.id ELSE 0
    /\ itemIdx' = 1
    /\ pc' = "items"
    /\ outcome' = "running"
    /\ calls' = 0
    /\ lastErr' = "none"
    /\ lastReply' = NoReply
    /\ executed' = IF \E i \in DOMAIN executed : executed[i].turn # response.id
                   THEN <<>>
                   ELSE executed
    /\ handled' = <<>>
    /\ screenshots' = 0
    /\ UNCHANGED <<response, wait, retry, executedCount, nextId>>

\* the entry of self.actions that continue_task executes for an item
ActionToExecute(r) == actions(r)[1]

ComputerCallOutput_first_call(item, r) ==
    [type |-> "computer_call_output", call_id |-> actions(r)[1].src,
     acknowledged_safety_checks |-> pending_safety_checks(r), content |-> "screenshot"]

\* the ComputerCallOutput built for an item
ComputerCallOutput(item, r) ==
    [type |-> "computer_call_output", call_id |-> item.call_id,
     acknowledged_safety_checks |-> pending_safety_checks(r), content |-> "screenshot"]

\* continue_task is left (return or raise): its locals end, and no
\* continue_task is under way whose handler calls and screenshots are counted
LeaveContinueTask(how) ==
    /\ pc' = "idle"
    /\ outcome' = how
    /\ wait' = 0
    /\ retry' = 0
    /\ inputs' = <<>>
    /\ handled' = <<>>
    /\ screenshots' = 0

\* the FunctionCallOutput built for an item: json.dumps of the handler's result
FunctionCallOutput(item, func) ==
    [type |-> "function_call_output", call_id |-> item.call_id,
     acknowledged_safety_checks |-> <<>>, content |-> <<"result", item.name, func>>]

\* tool_name in self.tools
IsRegistered(reg, n) == \E i \in DOMAIN reg : reg[i].name = n

\* _, func = self.tools[tool_name]
HandlerOf(reg, n) == (CHOOSE i \in DOMAIN reg : reg[i].name = n)

BranchOf_lenient(item) ==
    IF item.type = "computer_call" THEN "computer_call"
    ELSE IF item.type = "function_call" THEN "function_call"
    ELSE "pass"

\* the branch of the if/elif chain over item.type that an item takes
BranchOf(item) ==
    IF item.type = "computer_call" THEN "computer_call"
    ELSE IF item.type = "function_call" THEN "function_call"
    ELSE IF item.type = "reasoning" \/ item.type = "message" THEN "pass"
    ELSE "unsupported"

\* the exception an item makes the for loop raise, "none" when it raises nothing
RaisedByItem(reg, item) ==
    IF BranchOf(item) = "function_call" /\ ~IsRegistered(reg, item.name)
    THEN "ValueError"
    ELSE IF BranchOf(item) = "unsupported"
         THEN "NotImplementedError"
         ELSE "none"

\* one iteration of: for item in previous_response.output
HandleItem ==
    /\ pc = "items"
    /\ itemIdx <= Len(previous_response.output)
    /\ LET item   == previous_response.output[itemIdx]
           branch == BranchOf(item)
           exc    == RaisedByItem(tools, item)
       IN  /\ IF branch = "computer_call"
              THEN LET a == ActionToExecute(response)
                   IN  /\ IF a.action # "screenshot"
                          THEN /\ executed' =
                                    Append(executed,
                                           [turn |-> previous_response.id, item |-> item.call_id,
                                            src |-> a.src, action |-> a.action,
                                            action_args |-> a.action_args])
                               /\ executedCount' = executedCount + 1
                          ELSE UNCHANGED <<executed, executedCount>>
                       \* screenshot = await self.computer.screenshot()
                       /\ screenshots' = screenshots + 1
                       /\ UNCHANGED handled
              ELSE \* reasoning and message items need no output; the others
                   \* call a tool handler or raise
                   UNCHANGED <<executed, executedCount>>
           /\ IF exc # "none"
              THEN \* the exception leaves continue_task: self.response stays as it was
                   /\ LeaveContinueTask(exc)
                   /\ previous_response' = None
                   /\ itemIdx' = 1
                   /\ user_message' = ""
              ELSE /\ IF branch = "function_call"
                      THEN /\ handled' =
                                Append(handled,
                                       [item |-> item.call_id, name |-> item.name,
                                        func |-> tools[HandlerOf(tools, item.name)].func])
                           /\ UNCHANGED screenshots
                      ELSE IF branch = "computer_call"
                           THEN TRUE
                           ELSE UNCHANGED <<handled, screenshots>>
                   /\ inputs' =
                        IF branch = "computer_call"
                        THEN Append(inputs, ComputerCallOutput(item, response))
                        ELSE IF branch = "function_call"
                             THEN Append(inputs,
                                         FunctionCallOutput(item,
                                             tools[HandlerOf(tools, item.name)].func))
                             ELSE inputs
                   /\ itemIdx' = itemIdx + 1
                   /\ UNCHANGED <<pc, previous_response, user_message, wait, retry, outcome>>
    /\ UNCHANGED <<response, previous_response_id, nextId, calls, lastErr, lastReply,
                   invocations, orchVars>>
    /\ UNCHANGED <<scalerVars, registryVars, coreVars>>

WithUserMessage_first(ins, msg) ==
    IF msg # ""
    THEN <<[type |-> "message", call_id |-> 0,
            acknowledged_safety_checks |-> <<>>, content |-> msg]>> \o ins
    ELSE ins

\* if user_message: inputs.append(Message(role="user", content=user_message))
WithUserMessage(ins, msg) ==
    IF msg # ""
    THEN Append(ins, [type |-> "message", call_id |-> 0,
                      acknowledged_safety_checks |-> <<>>, content |-> msg])
    ELSE ins

\* after the loop: the user message, then the set-up of the retry loop
PrepareCall ==
    /\ pc = "items"
    /\ itemIdx > Len(previous_response.output)
    /\ inputs' = WithUserMessage(inputs, user_message)
    /\ response' = None
    /\ wait' = 0
    /\ retry' = RetryBudget
    /\ pc' = "attempt"
    \* previous_response, the loop position and user_message are not read again
    /\ previous_response' = None
    /\ itemIdx' = 1
    /\ user_message' = ""
    /\ UNCHANGED <<previous_response_id, outcome, envVars, orchVars>>
    /\ UNCHANGED <<scalerVars, toolVars, coreVars>>

\* await asyncio.sleep(wait): the seconds slept before the call of an attempt
SleepBeforeCall == wait

InputOfNextAttempt_emptied(ins) == <<>>

\* "input": inputs in the kwargs of the next attempt: the list built before
\* the retry loop, which no iteration of the loop changes
InputOfNextAttempt(ins) == ins

\* one iteration of: while retry > 0, the remote model doing one of O
AttemptOn(O) ==
    /\ pc = "attempt"
    /\ retry > 0
    /\ \E o \in O :
         LET r       == retry - 1
             newResp == IF o.kind = "response"
                        THEN Turn(nextId, o.status, o.output)
                        ELSE response
             exc     == ExceptionOf(o, newResp)
         IN  /\ calls' = calls + 1
             /\ response' = newResp
             /\ nextId' = IF o.kind = "response" THEN nextId + 1 ELSE nextId
             /\ lastErr' = exc
             /\ lastReply' = [kind |-> o.kind, status |-> o.status, message |-> o.message]
             /\ IF exc = "none"
                THEN LeaveContinueTask("returned")
                ELSE IF Reraises(exc, r)
                     THEN LeaveContinueTask(exc)
                     ELSE IF r > 0
                          THEN /\ pc' = "attempt"
                               /\ outcome' = outcome
                               /\ retry' = r
                               /\ wait' = WaitAfter(wait, o)
                               /\ inputs' = InputOfNextAttempt(inputs)
                               /\ UNCHANGED <<handled, screenshots>>
                          ELSE LeaveContinueTask("returned")
    /\ UNCHANGED <<previous_response, previous_response_id, itemIdx,
                   user_message, executed, executedCount, invocations, orchVars>>

\* one iteration of the retry loop
Attempt ==
    /\ AttemptOn(Outcomes)
    /\ UNCHANGED <<scalerVars, registryVars, coreVars>>

\* ------------------------------------- construction of the core modules
\* no Config object
NoConfig ==
    [scenario |-> "none", iteration_count |-> 0, azure_endpoint |-> "",
     azure_api_key |-> "", dry_run |-> FALSE, stop_on_error |-> FALSE]

\* run() has not returned a TestResult
NoTestResult ==
    [success |-> FALSE, error_message |-> "none", iterations_completed |-> 0,
     returned |-> FALSE]

\* no build_context call was made
NoContext ==
    [scenario |-> "none", iteration |-> 0, history |-> <<>>, current_goal |-> "none"]

\* no get_recent_history call was made
NoRecent == [count |-> 0, entries |-> <<>>]

\* ContextManager.__init__(max_history)
ContextInit(m) ==
    /\ history = <<>>
    /\ max_history = m
    /\ current_scenario = "None"
    /\ cm_iteration = 0
    /\ added = <<>>
    /\ recent = NoRecent
    /\ context = NoContext

\* before main() creates a Config and an AgentOrchestrator
RunInit ==
    /\ config = NoConfig
    /\ configArgs = NoConfig
    /\ configRaised = "none"
    /\ rpc = "off"
    /\ current_iteration = 0
    /\ successful_swaps = 0
    /\ should_abort = FALSE
    /\ executeActionCalls = 0
    /\ simulated = 0
    /\ failedIterations = 0
    /\ test_result = NoTestResult
    /\ cleaned = FALSE

\* max_history of ContextManager()
DefaultMaxHistory == 10

\* the core modules before any of their operations
CoreInit ==
    /\ RunInit
    /\ ContextInit(DefaultMaxHistory)

\* ------------------------------------------------------ the tool registry
\* the names of the custom tools
ToolNames == {"lookup", "notify"}

\* the handlers a caller registers (func of add_tool)
Handlers == {1, 2}

\* tool: the descriptor given to add_tool together with func
Descriptor(n, d) == [type |-> "function", name |-> n, description |-> d]

\* the (tool, func) pairs a caller registers
Registrations ==
    { [name |-> n, tool |-> Descriptor(n, h), func |-> h] : n \in ToolNames, h \in Handlers }

add_tool_appends(reg, t) == Append(reg, t)

\* self.tools[name] = (tool, func): a dict keeps the position of a key it
\* already holds and replaces the value
add_tool(reg, t) ==
    IF \E i \in DOMAIN reg : reg[i].name = t.name
    THEN [i \in DOMAIN reg |-> IF reg[i].name = t.name THEN t ELSE reg[i]]
    ELSE Append(reg, t)

RECURSIVE RegistryAfter(_)
\* self.tools after the add_tool calls of log
RegistryAfter(log) ==
    IF log = <<>>
    THEN <<>>
    ELSE add_tool(RegistryAfter(SubSeq(log, 1, Len(log) - 1)), log[Len(log)])

\* the Agent after the add_tool calls of log
ToolsInit(log) ==
    /\ tools = RegistryAfter(log)
    /\ registered = log
    /\ lastTools = <<>>

\* ------------------------------------------------- a caller of the Agent
UserMessages == {"", "go"}

\* a caller invokes agent.start_task(); without a current Turn the call
\* changes nothing
StartTask ==
    /\ opc = "off"
    /\ pc = "idle"
    /\ response # None
    /\ start_task_effect
    /\ UNCHANGED <<pc, previous_response, previous_response_id, inputs, itemIdx,
                   user_message, wait, retry, outcome, envVars, orchVars>>
    /\ UNCHANGED <<scalerVars, toolVars, coreVars>>

\* a caller invokes agent.continue_task(msg)
ContinueTask ==
    /\ opc = "off"
    /\ invocations < MaxInvocations
    /\ \E msg \in UserMessages : ContinueEnter(msg)
    /\ invocations' = invocations + 1
    /\ UNCHANGED orchVars
    /\ UNCHANGED <<scalerVars, registryVars, coreVars>>

AgentInit ==
    /\ response = None
    /\ pc = "idle"
    /\ previous_response = None
    /\ previous_response_id = 0
    /\ inputs = <<>>
    /\ itemIdx = 1
    /\ user_message = ""
    /\ wait = 0
    /\ retry = 0
    /\ outcome = "returned"
    /\ executed = <<>>
    /\ executedCount = 0
    /\ handled = <<>>
    /\ screenshots = 0
    /\ nextId = 1
    /\ calls = 0
    /\ lastErr = "none"
    /\ lastReply = NoReply
    /\ invocations = 0

\* ------------------------------------------------- Scaler construction
\* self.size = None
NoSize == <<>>

NoRatio == <<0, 0>>

\* CUAConfig.scale_dimensions
scale_dimensions == <<1024, 768>>

\* a screenshot of the Scaler: the true size of the capture, the canvas, the
\* size of the resized image pasted at its origin, and the ratio used
NoShot == [screen |-> NoSize, canvas |-> NoSize, resized |-> NoSize, ratio |-> NoRatio]

\* a call received by the Computer, with the ratio that translated its
\* points, the screenshot that was the latest one then and the size the real
\* screen had then; given are the arguments other than points that the
\* Scaler method was called with, args the ones the Computer received
NoCall == [method |-> "none", logical |-> <<>>, path |-> <<>>, button |-> "none",
           ratio |-> NoRatio, shown |-> NoShot, physical |-> NoSize,
           performed |-> FALSE, given |-> <<>>, args |-> <<>>]

\* Scaler.__init__ over a fresh LocalComputer
ScalerInit(dims, phys) ==
    /\ configured = dims
    /\ size = dims
    /\ screen_width = -1
    /\ screen_height = -1
    /\ computerSize = NoSize
    /\ physical = phys
    /\ shot = NoShot
    /\ forwarded = NoCall
    /\ dimsLog = <<>>
    /\ scaledFrom = NoSize
    /\ received = 0

\* ------------------------------------- ComputerUseAssistant (task loop)
NoResult == [success |-> FALSE, actions_taken |-> 0, screenshots |-> 0, returned |-> FALSE]

\* no loop body has run yet: no gate was called for any Turn
NoConsultation ==
    [turn |-> 0, consentAsked |-> FALSE, consent |-> FALSE,
     safetyAsked |-> FALSE, safety |-> FALSE]

\* ExecutionResult(success=..., actions_taken=..., screenshots=...)
ExecutionResult(ok, n, shots) ==
    [success |-> ok, actions_taken |-> n, screenshots |-> shots, returned |-> TRUE]

\* config.require_consent and config.safety_checks_enabled (CUAConfig defaults)
require_consent == TRUE
safety_checks_enabled == TRUE

\* ComputerUseAssistant._get_user_consent
get_user_consent(auto) == IF auto THEN TRUE ELSE TRUE

\* ComputerUseAssistant._handle_safety_checks
handle_safety_checks(auto, checks) == IF auto THEN TRUE ELSE TRUE

\* the instructions handed to execute_instructions
Instructions == "go"

\* execute_instructions up to the while loop
ExecuteInstructions ==
    /\ opc = "idle"
    /\ pc = "idle"
    /\ actions_taken' = 0
    /\ start_task_effect
    /\ user_input' = Instructions
    /\ opc' = "loop"
    /\ UNCHANGED <<pc, previous_response, previous_response_id, inputs, itemIdx,
                   user_message, wait, retry, outcome, envVars, max_actions, result,
                   continueCalls, autoplay, stop, oneActionTurns, shotAttempts, consulted>>
    /\ UNCHANGED <<scalerVars, toolVars, coreVars>>

\* while actions_taken < max_actions: ... await self.agent.continue_task(user_input)
\* (user_input = None after the first iteration is the empty message here)
LoopContinue ==
    /\ opc = "loop"
    /\ actions_taken < max_actions
    /\ ~(user_input = "" /\ requires_user_input(response))
    /\ ContinueEnter(user_input)
    /\ opc' = "await"
    /\ continueCalls' = continueCalls + 1
    /\ UNCHANGED <<invocations, max_actions, actions_taken, user_input, result,
                   autoplay, stop, oneActionTurns, shotAttempts, consulted>>
    /\ UNCHANGED <<scalerVars, registryVars, coreVars>>

\* the loop is left at its head: the condition is false, or input is required
LoopExit ==
    /\ opc = "loop"
    /\ pc = "idle"
    /\ \/ /\ ~(actions_taken < max_actions)
          /\ stop' = "exhausted"
       \/ /\ actions_taken < max_actions
          /\ user_input = "" /\ requires_user_input(response)
          /\ stop' = "needs_input"
    /\ opc' = "final"
    /\ UNCHANGED <<agentVars, envVars, max_actions, actions_taken, user_input, result,
                   continueCalls, autoplay, oneActionTurns, shotAttempts, consulted>>
    /\ UNCHANGED <<scalerVars, toolVars, coreVars>>

\* if self.agent.requires_consent and not self.config.autoplay:
\*     if self.config.require_consent: the consent gate is called
ConsentAsked_never(r, auto) == FALSE

ConsentAsked(r, auto) ==
    requires_consent(r) /\ ~auto /\ require_consent

\* if self.agent.pending_safety_checks and not self.config.autoplay:
\*     if self.config.safety_checks_enabled: the safety check gate is called
SafetyAsked(r, auto) ==
    pending_safety_checks(r) # <<>> /\ ~auto /\ safety_checks_enabled

\* the consent gate of the loop body, for a gate that answers `answer`:
\* TRUE when the loop goes on
ConsentGrantedBy(r, auto, answer) ==
    IF ConsentAsked(r, auto)
    THEN answer
    ELSE TRUE

\* the safety check gate of the loop body, for a gate that answers `answer`
SafetyGrantedBy(r, auto, answer) ==
    IF SafetyAsked(r, auto)
    THEN answer
    ELSE TRUE

\* the consent gate of the loop body: TRUE when the loop goes on
ConsentGranted(r, auto) ==
    ConsentGrantedBy(r, auto, get_user_consent(auto))

\* the safety check gate of the loop body
SafetyGranted(r, auto) ==
    SafetyGrantedBy(r, auto, handle_safety_checks(auto, pending_safety_checks(r)))

\* actions_taken after the for loop over self.agent.actions
CountActions_forgets(n, acts) == n

CountActions(n, acts) == n + Len(acts)

\* if not self.agent.requires_user_input and not actions
TaskComplete(r, acts) == ~requires_user_input(r) /\ acts = <<>>

\* if actions_taken >= self.config.max_actions
LimitReached(n, limit) == n >= limit

\* the loop body after continue_task has returned, the gates having granted
\* (TRUE) or denied (FALSE) consent and the safety checks
LoopBody(consent, safety) ==
    /\ opc = "await"
    /\ pc = "idle"
    /\ outcome = "returned"
    /\ user_input' = ""
    /\ oneActionTurns' = (oneActionTurns /\ Len(actions(response)) = 1)
    /\ consulted' = [turn         |-> response.id,
                     consentAsked |-> ConsentAsked(response, autoplay),
                     consent      |-> ConsentAsked(response, autoplay) /\ consent,
                     safetyAsked  |-> consent /\ SafetyAsked(response, autoplay),
                     safety       |-> consent /\ SafetyAsked(response, autoplay) /\ safety]
    /\ IF ~consent \/ ~safety
       THEN /\ stop' = "denied"
            /\ opc' = "final"
            /\ UNCHANGED actions_taken
       ELSE LET acts == actions(response)
                n    == CountActions(actions_taken, acts)
            IN  /\ actions_taken' = n
                /\ IF TaskComplete(response, acts)
                   THEN stop' = "complete" /\ opc' = "final"
                   ELSE IF LimitReached(n, max_actions)
                        THEN stop' = "limit" /\ opc' = "final"
                        ELSE stop' = stop /\ opc' = "loop"
    /\ UNCHANGED <<agentVars, envVars, max_actions, result, continueCalls, autoplay,
                   shotAttempts>>

\* the loop body with the gates of the class: _get_user_consent and
\* _handle_safety_checks
AfterContinue ==
    /\ LoopBody(ConsentGranted(response, autoplay), SafetyGranted(response, autoplay))
    /\ UNCHANGED <<scalerVars, toolVars, coreVars>>

\* the answers of a consent gate that asks the operator
GateAnswers == BOOLEAN

\* the loop body with _get_user_consent and _handle_safety_checks replaced by
\* gates that ask the operator, who allows or denies
AfterContinueAsked ==
    /\ \E c \in GateAnswers, k \in GateAnswers :
          LoopBody(ConsentGrantedBy(response, autoplay, c),
                   SafetyGrantedBy(response, autoplay, k))
    /\ UNCHANGED <<scalerVars, toolVars, coreVars>>

\* success of the ExecutionResult returned after the loop
SuccessAfterLoop(why) == TRUE

\* after the loop: the final screenshot (a failed capture is logged and
\* skipped) and the ExecutionResult
Finalize ==
    /\ opc = "final"
    /\ \E shots \in {0, 1} :
         result' = ExecutionResult(SuccessAfterLoop(stop), actions_taken, shots)
    /\ shotAttempts' = shotAttempts + 1
    /\ opc' = "done"
    /\ UNCHANGED <<agentVars, envVars, max_actions, actions_taken, user_input,
                   continueCalls, autoplay, stop, oneActionTurns, consulted>>
    /\ UNCHANGED <<scalerVars, toolVars, coreVars>>

\* except Exception as e: the ExecutionResult of a failed run
ContinueRaised ==
    /\ opc = "await"
    /\ pc = "idle"
    /\ outcome \notin {"returned", "running"}
    /\ stop' = "exception"
    /\ result' = ExecutionResult(FALSE, actions_taken, 0)
    /\ opc' = "done"
    /\ UNCHANGED <<agentVars, envVars, max_actions, actions_taken, user_input,
                   continueCalls, autoplay, oneActionTurns, shotAttempts, consulted>>
    /\ UNCHANGED <<scalerVars, toolVars, coreVars>>

InitOrch ==
    /\ AgentInit
    /\ opc = "idle"
    /\ max_actions \in 0..MaxActionsBound
    /\ autoplay \in BOOLEAN
    /\ actions_taken = 0
    /\ user_input = ""
    /\ result = NoResult
    /\ continueCalls = 0
    /\ stop = "none"
    /\ oneActionTurns = TRUE
    /\ shotAttempts = 0
    /\ consulted = NoConsultation
    /\ ScalerInit(scale_dimensions, <<1920, 1080>>)
    /\ ToolsInit(<<>>)
    /\ CoreInit

NextOrch ==
    \/ ExecuteInstructions
    \/ LoopContinue
    \/ LoopExit
    \/ HandleItem
    \/ PrepareCall
    \/ Attempt
    \/ AfterContinue
    \/ ContinueRaised
    \/ Finalize

SpecOrch == InitOrch /\ [][NextOrch]_vars

\* the task loop is one sequential coroutine: every awaited step (a sleep, a
\* remote call, an action) ends, so a step that can be taken is taken
SpecOrchFair == InitOrch /\ [][NextOrch]_vars /\ WF_vars(NextOrch)

\* execute_instructions with gates that ask the operator
NextAsked ==
    \/ ExecuteInstructions
    \/ LoopContinue
    \/ LoopExit
    \/ HandleItem
    \/ PrepareCall
    \/ Attempt
    \/ AfterContinueAsked
    \/ ContinueRaised
    \/ Finalize

SpecAsked == InitOrch /\ [][NextAsked]_vars

\* ------------------------------------------------------ Scaler arithmetic
Abs(n) == IF n < 0 THEN -n ELSE n

\* max(width, height)
Longest(w, h) == IF w >= h THEN w ELSE h

\* int(n / d) of exact integers: truncation toward zero
Truncated(n, d) ==
    IF n = 0 \/ ((n > 0) = (d > 0))
    THEN Abs(n) \div Abs(d)
    ELSE -(Abs(n) \div Abs(d))

\* x / ratio is double arithmetic: the division width / screen_width is
\* rounded, and a quotient x / ratio whose true value is a whole number can
\* come out just below it, so that int() yields the integer before. These are
\* the triples <<x, width, screen_width>> of the inputs used here for which
\* that happens (125 / (1000 / 1920) is 239.99999999999997); for all the
\* others, and for every product of Scaled and Resized on these inputs, the
\* double has the integer part of the true value.
FloatRoundsBelow == {<<125, 1000, 1920>>, <<225, 1000, 1920>>}

Scaled_rounds_up(edge, longest) == (edge * max_size + longest - 1) \div longest

\* scale = max_size / longest; int(edge * scale)
Scaled(edge, longest) == Truncated(edge * max_size, longest)

ScaleToFit_stretches(width, height) ==
    <<Scaled(width, Longest(width, height)), Scaled(height, Longest(width, height))>>

\* the size Scaler.dimensions computes from the Computer's dimensions
ScaleToFit(width, height) ==
    LET longest == Longest(width, height)
    IN  IF longest <= max_size
        THEN <<width, height>>
        ELSE <<Scaled(width, longest), Scaled(height, longest)>>

\* LocalComputer.dimensions: the cached size, else the size of a capture
LocalComputerDimensions(lc, phys) == IF lc # NoSize THEN lc ELSE phys

dimensions_transposed(sz, comp) ==
    IF sz # NoSize THEN <<sz[2], sz[1]>> ELSE ScaleToFit(comp[1], comp[2])

\* Scaler.dimensions: the value of self.size, which is also the value
\* returned, after a read; comp is self.computer.dimensions
dimensions(sz, comp) ==
    IF sz # NoSize THEN sz ELSE ScaleToFit(comp[1], comp[2])

\* ratio = min(width / screen_width, height / screen_height), as the pair
\* <<numerator, denominator>>; both denominators have the same sign
ratio(sz, sw, sh) ==
    IF sz[1] * sh <= sz[2] * sw THEN <<sz[1], sw>> ELSE <<sz[2], sh>>

RecordedScreen_live == physical

\* the screen size _point_to_screen_coords divides by
RecordedScreen == <<screen_width, screen_height>>

Unscaled_multiplies(x, r) == Truncated(x * r[1], r[2])

\* int(x / ratio)
Unscaled(x, r) ==
    IF <<x, r[1], r[2]>> \in FloatRoundsBelow
    THEN Truncated(x * r[2], r[1]) - 1
    ELSE Truncated(x * r[2], r[1])

point_to_screen_coords_transposed(x, y, sz, sw, sh) ==
    <<Unscaled(y, ratio(sz, sw, sh)), Unscaled(x, ratio(sz, sw, sh))>>

\* Scaler._point_to_screen_coords
point_to_screen_coords(x, y, sz, sw, sh) ==
    LET r == ratio(sz, sw, sh)
    IN  <<Unscaled(x, r), Unscaled(y, r)>>

Resized_unscaled(sw, sh, r) == <<sw, sh>>

\* int(self.screen_width * ratio), int(self.screen_height * ratio)
Resized(sw, sh, r) == <<Truncated(sw * r[1], r[2]), Truncated(sh * r[1], r[2])>>

\* ---------------------------------------------------------- Scaler inputs
\* sizes of the real screen
PhysicalSizes == {<<1920, 1080>>, <<2560, 1440>>, <<1080, 2400>>}

\* the dimensions argument of Scaler(computer, dimensions)
ConfiguredSizes == {NoSize, <<1024, 768>>, <<1000, 1000>>}

\* logical points the remote model names
LogicalPoints == {<<100, 50>>, <<125, 225>>}

\* drag paths
Paths == UNION {[1..n -> LogicalPoints] : n \in 0..MaxPath}

Buttons == {"left", "right"}

\* ----------------------------------------------------------- Scaler steps
\* the screen changes its resolution
Resize ==
    /\ \E p \in PhysicalSizes \ {physical} : physical' = p
    /\ UNCHANGED <<configured, size, screen_width, screen_height, computerSize, shot,
                   forwarded, dimsLog, scaledFrom, received, coreVars, toolVars, agentVars,
                   envVars,
                   orchVars>>

\* one read of the property Scaler.dimensions
ReadDimensions ==
    /\ size' = dimensions(size, LocalComputerDimensions(computerSize, physical))
    /\ dimsLog' = IF dimsLog = <<>> THEN <<size'>> ELSE <<dimsLog[Len(dimsLog)], size'>>
    /\ computerSize' = IF size = NoSize
                       THEN LocalComputerDimensions(computerSize, physical)
                       ELSE computerSize
    /\ scaledFrom' = IF size = NoSize
                     THEN LocalComputerDimensions(computerSize, physical)
                     ELSE scaledFrom

\* a client reads scaler.dimensions
Dimensions ==
    /\ ReadDimensions
    /\ UNCHANGED <<configured, screen_width, screen_height, physical, shot, forwarded,
                   received, coreVars, toolVars, agentVars,
                   envVars, orchVars>>

\* Scaler.screenshot
Screenshot ==
    /\ computerSize' = physical
    /\ screen_width' = physical[1]
    /\ screen_height' = physical[2]
    /\ size' = dimensions(size, physical)
    /\ scaledFrom' = IF size = NoSize THEN physical ELSE scaledFrom
    /\ LET r == ratio(size', physical[1], physical[2])
       IN  shot' = [screen |-> physical, canvas |-> size',
                    resized |-> Resized(physical[1], physical[2], r), ratio |-> r]
    /\ dimsLog' = <<>>
    /\ UNCHANGED <<configured, physical, forwarded, received, coreVars, toolVars, agentVars,
                   envVars,
                   orchVars>>

\* LocalComputer.click and double_click act inside the screen they know of
InBounds(p, lc) == 0 <= p[1] /\ p[1] < lc[1] /\ 0 <= p[2] /\ p[2] < lc[2]

\* [self._point_to_screen_coords(*point) for point in path]
TranslatedPath(points, sz, sw, sh) ==
    [i \in DOMAIN points |-> point_to_screen_coords(points[i][1], points[i][2], sz, sw, sh)]

PassedThrough_doubled(extra) == extra \o extra

\* the arguments a Scaler method hands on as they are: button=button,
\* scroll_x, scroll_y, text, ms, keys
PassedThrough(extra) == extra

\* a pointer method of the Scaler: translate every point, then call the
\* same method of the Computer with the points and the other arguments
Forward(method, points, extra) ==
    LET scr  == RecordedScreen
        lc   == IF size = NoSize \/ method \in {"click", "double_click"}
                THEN LocalComputerDimensions(computerSize, physical)
                ELSE computerSize
        s    == dimensions(size, LocalComputerDimensions(computerSize, physical))
        path == TranslatedPath(points, s, scr[1], scr[2])
    IN  /\ size' = s
        /\ computerSize' = lc
        /\ scaledFrom' = IF size = NoSize
                         THEN LocalComputerDimensions(computerSize, physical)
                         ELSE scaledFrom
        /\ received' = received + 1
        /\ forwarded' =
              [method |-> method, logical |-> points, path |-> path,
               button |-> IF method = "click" THEN PassedThrough(extra)[1] ELSE "none",
               ratio |-> ratio(s, scr[1], scr[2]),
               shown |-> shot, physical |-> physical,
               performed |-> IF method \in {"click", "double_click"}
                             THEN InBounds(path[1], lc)
                             ELSE TRUE,
               given |-> extra, args |-> PassedThrough(extra)]

\* what a pointer method leaves alone
ForwardFrame == <<configured, screen_width, screen_height, physical, shot, dimsLog,
                  coreVars, toolVars, agentVars,
                   envVars, orchVars>>

\* scroll_x, scroll_y
ScrollDeltas == {<<0, 3>>, <<-2, 0>>}

\* Scaler.click
Click ==
    /\ received < MaxReceived
    /\ \E p \in LogicalPoints, b \in Buttons : Forward("click", <<p>>, <<b>>)
    /\ UNCHANGED ForwardFrame

\* Scaler.double_click
DoubleClick ==
    /\ received < MaxReceived
    /\ \E p \in LogicalPoints : Forward("double_click", <<p>>, <<>>)
    /\ UNCHANGED ForwardFrame

\* Scaler.scroll
Scroll ==
    /\ received < MaxReceived
    /\ \E p \in LogicalPoints, d \in ScrollDeltas : Forward("scroll", <<p>>, d)
    /\ UNCHANGED ForwardFrame

\* Scaler.move
Move ==
    /\ received < MaxReceived
    /\ \E p \in LogicalPoints : Forward("move", <<p>>, <<>>)
    /\ UNCHANGED ForwardFrame

\* Scaler.drag
Drag ==
    /\ received < MaxReceived
    /\ \E path \in Paths : Forward("drag", path, <<>>)
    /\ UNCHANGED ForwardFrame

\* a method of the Scaler that only awaits the same method of the Computer
PassOn(method, extra) ==
    /\ received' = received + 1
    /\ forwarded' =
          [method |-> method, logical |-> <<>>, path |-> <<>>, button |-> "none",
           ratio |-> NoRatio, shown |-> shot, physical |-> physical,
           performed |-> TRUE, given |-> extra, args |-> PassedThrough(extra)]

\* what type, wait and keypress leave alone
PassOnFrame == <<configured, size, screen_width, screen_height, computerSize,
                 physical, shot, dimsLog, scaledFrom, coreVars, toolVars, agentVars,
                   envVars, orchVars>>

Texts == {"hello", ""}

Waits == {1000, 250}

KeyCombinations == {<<"ctrl", "c">>, <<"Enter">>}

\* Scaler.type
Type ==
    /\ received < MaxReceived
    /\ \E text \in Texts : PassOn("type", <<text>>)
    /\ UNCHANGED PassOnFrame

\* Scaler.wait
Wait ==
    /\ received < MaxReceived
    /\ \E ms \in Waits : PassOn("wait", <<ms>>)
    /\ UNCHANGED PassOnFrame

\* Scaler.keypress
Keypress ==
    /\ received < MaxReceived
    /\ \E keys \in KeyCombinations : PassOn("keypress", <<keys>>)
    /\ UNCHANGED PassOnFrame

\* a Scaler over a LocalComputer, driven by any client
InitScaler ==
    /\ AgentInit
    /\ opc = "off"
    /\ max_actions = 0
    /\ actions_taken = 0
    /\ user_input = ""
    /\ result = NoResult
    /\ continueCalls = 0
    /\ autoplay = FALSE
    /\ stop = "none"
    /\ oneActionTurns = TRUE
    /\ shotAttempts = 0
    /\ consulted = NoConsultation
    /\ \E d \in ConfiguredSizes, p \in PhysicalSizes : ScalerInit(d, p)
    /\ ToolsInit(<<>>)
    /\ CoreInit

NextScaler ==
    \/ Resize
    \/ Dimensions
    \/ Screenshot
    \/ Click
    \/ DoubleClick
    \/ Scroll
    \/ Move
    \/ Drag
    \/ Type
    \/ Wait
    \/ Keypress

SpecScaler == InitScaler /\ [][NextScaler]_vars

\* a client that only looks: it takes screenshots and reads the dimensions
\* while the screen changes its resolution
NextScreens ==
    \/ Resize
    \/ Dimensions
    \/ Screenshot

SpecScreens == InitScaler /\ [][NextScreens]_vars

\* ------------------------------------------- registering custom tools
\* Agent.computer_tool: the descriptor of the built-in tool for a Computer
\* of these dimensions
computer_tool(dims) ==
    [type |-> "computer_use_preview", name |-> "computer", description |-> dims]

\* Agent.get_tools: [self.computer_tool(), *tools]
get_tools(reg, dims) ==
    <<computer_tool(dims)>> \o [i \in DOMAIN reg |-> reg[i].tool]

\* a caller registers a tool: agent.add_tool(tool, func)
AddTool ==
    /\ Len(registered) < MaxRegistrations
    /\ \E t \in Registrations :
         /\ tools' = add_tool(tools, t)
         /\ registered' = Append(registered, t)
    /\ UNCHANGED <<lastTools, handled, screenshots, agentVars, envVars, orchVars,
                   scalerVars, coreVars>>

\* a caller reads agent.get_tools(); computer_tool reads the dimensions of
\* the Computer, which is the Scaler
GetTools ==
    /\ ReadDimensions
    /\ lastTools' = get_tools(tools, size')
    /\ UNCHANGED <<tools, registered, handled, screenshots, agentVars, envVars,
                   orchVars, coreVars, configured, screen_width, screen_height, physical, shot,
                   forwarded, received>>

InitRegistry ==
    /\ AgentInit
    /\ opc = "off"
    /\ max_actions = 0
    /\ actions_taken = 0
    /\ user_input = ""
    /\ result = NoResult
    /\ continueCalls = 0
    /\ autoplay = FALSE
    /\ stop = "none"
    /\ oneActionTurns = TRUE
    /\ shotAttempts = 0
    /\ consulted = NoConsultation
    /\ \E d \in ConfiguredSizes : ScalerInit(d, <<1920, 1080>>)
    /\ ToolsInit(<<>>)
    /\ CoreInit

NextRegistry ==
    \/ AddTool
    \/ GetTools

SpecRegistry == InitRegistry /\ [][NextRegistry]_vars

\* ------------------------------------------- an Agent with custom tools
\* the items of a Turn of a remote model that also calls custom tools
ToolItemShapes ==
    { ComputerCall([type |-> "click", args |-> "x1y1"], <<>>),
      FunctionCall("lookup"),
      FunctionCall("notify"),
      OtherItem,
      OutputMessage,
      ReasoningItem }

ToolOutputLists ==
    UNION { [1..n -> ToolItemShapes] : n \in 0..MaxItems }

\* what one responses.create call may do for such an Agent
ToolOutcomes ==
    { [kind |-> "response", status |-> "completed", output |-> o, message |-> NoMessage] :
          o \in ToolOutputLists }
    \cup { [kind |-> "APIConnectionError", status |-> "none", output |-> <<>>,
            message |-> NoMessage] }

\* one iteration of the retry loop
AttemptTools ==
    /\ AttemptOn(ToolOutcomes)
    /\ UNCHANGED <<scalerVars, registryVars, coreVars>>

\* the add_tool calls a caller makes before the first task
ToolLogs ==
    { <<>>,
      <<[name |-> "lookup", tool |-> Descriptor("lookup", 1), func |-> 1]>>,
      <<[name |-> "lookup", tool |-> Descriptor("lookup", 1), func |-> 1],
        [name |-> "lookup", tool |-> Descriptor("lookup", 2), func |-> 2]>> }

InitTools ==
    /\ AgentInit
    /\ opc = "off"
    /\ max_actions = 0
    /\ actions_taken = 0
    /\ user_input = ""
    /\ result = NoResult
    /\ continueCalls = 0
    /\ autoplay = FALSE
    /\ stop = "none"
    /\ oneActionTurns = TRUE
    /\ shotAttempts = 0
    /\ consulted = NoConsultation
    /\ ScalerInit(scale_dimensions, <<1920, 1080>>)
    /\ \E log \in ToolLogs : ToolsInit(log)
    /\ CoreInit

NextTools ==
    \/ StartTask
    \/ ContinueTask
    \/ HandleItem
    \/ PrepareCall
    \/ AttemptTools

SpecTools == InitTools /\ [][NextTools]_vars

\* execute_instructions of an assistant whose Agent was given custom tools
\* (assistant.agent.add_tool) after initialize()
InitAssistantTools ==
    /\ AgentInit
    /\ opc = "idle"
    /\ max_actions \in 0..MaxActionsBound
    /\ autoplay \in BOOLEAN
    /\ actions_taken = 0
    /\ user_input = ""
    /\ result = NoResult
    /\ continueCalls = 0
    /\ stop = "none"
    /\ oneActionTurns = TRUE
    /\ shotAttempts = 0
    /\ consulted = NoConsultation
    /\ ScalerInit(scale_dimensions, <<1920, 1080>>)
    /\ \E log \in ToolLogs : ToolsInit(log)
    /\ CoreInit

NextAssistantTools ==
    \/ ExecuteInstructions
    \/ LoopContinue
    \/ LoopExit
    \/ HandleItem
    \/ PrepareCall
    \/ AttemptTools
    \/ AfterContinue
    \/ ContinueRaised
    \/ Finalize

SpecAssistantTools == InitAssistantTools /\ [][NextAssistantTools]_vars

\* --------------------------------------------------------- ContextManager
\* the action texts of the entries a caller adds
EntryActions == {"Navigate to System Status", "Wait for completion"}

Evicted_newest(h, m) ==
    IF Len(h) > m THEN SubSeq(h, 1, Len(h) - 1) ELSE h

\* if len(self.history) > self.max_history: self.history.pop(0)
Evicted(h, m) ==
    IF Len(h) > m THEN Tail(h) ELSE h

\* ContextManager.add_entry: the history after the entry e is added
add_entry(h, m, e) == Evicted(Append(h, e), m)

\* the Python slice h[-count:] for count >= 0: -0 is 0, so h[-0:] is h[0:]
LastSlice(h, count) ==
    LET start == IF count = 0
                 THEN 0
                 ELSE IF Len(h) - count < 0 THEN 0 ELSE Len(h) - count
    IN  SubSeq(h, start + 1, Len(h))

\* ContextManager.get_recent_history(count): the entries it lists
get_recent_history(h, count) ==
    IF Len(h) >= count THEN LastSlice(h, count) ELSE h

\* a caller adds an entry
AddEntry ==
    /\ Len(added) < MaxEntries
    /\ \E a \in EntryActions :
         LET e == [id |-> Len(added) + 1, action |-> a]
         IN  /\ history' = add_entry(history, max_history, e)
             /\ added' = Append(added, e)
    /\ UNCHANGED <<max_history, current_scenario, cm_iteration, recent, context,
                   runVars, agentVars, envVars, orchVars, scalerVars, toolVars>>

\* a caller reads get_recent_history(count)
GetRecentHistory ==
    /\ \E c \in 0..MaxCount :
         recent' = [count |-> c, entries |-> get_recent_history(history, c)]
    /\ UNCHANGED <<history, max_history, current_scenario, cm_iteration, added,
                   context, runVars, agentVars, envVars, orchVars, scalerVars,
                   toolVars>>

\* ContextManager.clear_history
ClearHistory ==
    /\ history # <<>>
    /\ history' = <<>>
    /\ added' = <<>>
    /\ UNCHANGED <<max_history, current_scenario, cm_iteration, recent, context,
                   runVars, agentVars, envVars, orchVars, scalerVars, toolVars>>

\* the current_state dictionaries a caller passes to build_context: the
\* keys scenario and iteration are present or not
CurrentStates ==
    { [has_scenario |-> FALSE, scenario |-> "none", has_iteration |-> FALSE, iteration |-> 0],
      [has_scenario |-> TRUE, scenario |-> "swap_test", has_iteration |-> FALSE,
       iteration |-> 0],
      [has_scenario |-> TRUE, scenario |-> "swap_test", has_iteration |-> TRUE,
       iteration |-> 2] }

\* the arguments of set_scenario(scenario, iteration)
ScenarioArgs == {<<"swap_test", 1>>, <<"status_check", 0>>}

\* current_state.get('scenario', default)
GetScenario(st, default) == IF st.has_scenario THEN st.scenario ELSE default

\* current_state.get('iteration', default)
GetIteration(st, default) == IF st.has_iteration THEN st.iteration ELSE default

\* the branch of _determine_current_goal the last action falls in: the
\* lower-cased text holds "navigate" and "system status", or "wait", or none
\* of the words looked for
GoalAfter(last_action, iteration) ==
    CASE last_action = "Navigate to System Status" -> "Select target network (UCN 07)"
      [] last_action = "Wait for completion" -> "Verify swap success"
      [] OTHER -> "Continue swap test iteration " \o ToString(iteration)

\* the goal of a scenario and an iteration after the history h
GoalOf(scenario, iteration, h) ==
    IF scenario = "swap_test"
    THEN IF h = <<>>
         THEN "Navigate to System Status screen"
         ELSE GoalAfter(h[Len(h)].action, iteration)
    ELSE "Execute " \o scenario

\* ContextManager._determine_current_goal
determine_current_goal(st, h) ==
    GoalOf(GetScenario(st, "unknown"), GetIteration(st, 0), h)

\* ContextManager.build_context: the dictionary it returns
build_context(st, h, sc, it) ==
    [scenario     |-> GetScenario(st, sc),
     iteration    |-> GetIteration(st, it),
     history      |-> get_recent_history(h, 5),
     current_goal |-> determine_current_goal(st, h)]

\* a caller builds the context of an AI call
BuildContext ==
    /\ \E st \in CurrentStates :
         context' = build_context(st, history, current_scenario, cm_iteration)
    /\ UNCHANGED <<history, max_history, current_scenario, cm_iteration, added,
                   recent, runVars, agentVars, envVars, orchVars, scalerVars,
                   toolVars>>

\* ContextManager.set_scenario
SetScenario ==
    /\ \E a \in ScenarioArgs :
         /\ current_scenario' = a[1]
         /\ cm_iteration' = a[2]
    /\ UNCHANGED <<history, max_history, added, recent, context, runVars, agentVars,
                   envVars, orchVars, scalerVars, toolVars>>

InitContext ==
    /\ AgentInit
    /\ opc = "off"
    /\ max_actions = 0
    /\ actions_taken = 0
    /\ user_input = ""
    /\ result = NoResult
    /\ continueCalls = 0
    /\ autoplay = FALSE
    /\ stop = "none"
    /\ oneActionTurns = TRUE
    /\ shotAttempts = 0
    /\ consulted = NoConsultation
    /\ ScalerInit(scale_dimensions, <<1920, 1080>>)
    /\ ToolsInit(<<>>)
    /\ RunInit
    /\ \E m \in 0..MaxHistoryBound : ContextInit(m)

NextContext ==
    \/ AddEntry
    \/ GetRecentHistory
    \/ ClearHistory

SpecContext == InitContext /\ [][NextContext]_vars

\* a caller that sets the scenario, records its actions and builds the
\* context of its AI calls
NextGoals ==
    \/ SetScenario
    \/ AddEntry
    \/ BuildContext
    \/ ClearHistory

SpecGoals == InitContext /\ [][NextGoals]_vars

\* ------------------------------------------ main and AgentOrchestrator
\* the field values of Config() when no argument is given
DefaultConfig ==
    [scenario |-> "swap_test", iteration_count |-> 1, azure_endpoint |-> "",
     azure_api_key |-> "", dry_run |-> FALSE, stop_on_error |-> TRUE]

\* --scenario of the command line
Scenarios == {"swap_test", "startup_test", "status_check"}

\* the field values a configuration file or a caller gives to Config(...)
ConfigArgs ==
    [scenario : {"swap_test"}, iteration_count : {1},
     azure_endpoint : {"", "https://test.com"}, azure_api_key : {"", "test-key"},
     dry_run : {FALSE}, stop_on_error : BOOLEAN]

\* Config.__post_init__: the message of the ValueError it raises, "none"
\* when it raises nothing
post_init(c) ==
    IF c.azure_endpoint = ""
    THEN "Azure endpoint is required"
    ELSE IF c.azure_api_key = ""
         THEN "Azure API key is required"
         ELSE "none"

\* Config(**args)
CreateConfig ==
    /\ rpc = "off"
    /\ \E args \in ConfigArgs :
         /\ configArgs' = args
         /\ configRaised' = post_init(args)
         /\ IF post_init(args) = "none"
            THEN config' = args /\ rpc' = "created"
            ELSE config' = NoConfig /\ rpc' = "exit"
    /\ UNCHANGED <<current_iteration, successful_swaps, should_abort, executeActionCalls,
                   simulated, failedIterations, test_result, cleaned, ctxVars,
                   agentVars, envVars, orchVars, scalerVars, toolVars>>

\* what run() leaves alone
RunFrame == <<configArgs, configRaised, ctxVars, agentVars, envVars, orchVars,
              scalerVars, toolVars>>

\* main: the command line overrides the configuration, an
\* AgentOrchestrator is made of it and run() begins
StartRun ==
    /\ rpc = "created"
    /\ \E sc \in Scenarios, n \in 0..MaxIterations, dry \in BOOLEAN :
         config' = [config EXCEPT !.scenario = sc, !.iteration_count = n, !.dry_run = dry]
    /\ rpc' = "initialize"
    /\ UNCHANGED <<current_iteration, successful_swaps, should_abort, executeActionCalls,
                   simulated, failedIterations, test_result, cleaned>>
    /\ UNCHANGED RunFrame

\* except Exception as e in run(): the error result is reported
Fail(msg) ==
    /\ test_result' = [success |-> FALSE, error_message |-> msg,
                       iterations_completed |-> current_iteration, returned |-> FALSE]
    /\ rpc' = "cleanup"

\* await self._initialize_modules()
InitializeModules ==
    /\ rpc = "initialize"
    /\ \/ rpc' = "verify" /\ UNCHANGED test_result
       \/ Fail("initialization failed")
    /\ UNCHANGED <<config, current_iteration, successful_swaps, should_abort,
                   executeActionCalls, simulated, failedIterations, cleaned>>
    /\ UNCHANGED RunFrame

\* await self._verify_application_ready() and the choice of the scenario
VerifyReady ==
    /\ rpc = "verify"
    /\ \/ IF config.scenario = "swap_test"
          THEN rpc' = "loop" /\ UNCHANGED test_result
          ELSE Fail("not implemented")
       \/ Fail("Application not ready")
    /\ UNCHANGED <<config, current_iteration, successful_swaps, should_abort,
                   executeActionCalls, simulated, failedIterations, cleaned>>
    /\ UNCHANGED RunFrame

BreaksOnAbort_never(flag) == FALSE

\* if self.should_abort: break
BreaksOnAbort(flag) == flag

\* for iteration in range(1, self.config.iteration_count + 1): ...
\* if self.should_abort: break
IterationHead ==
    /\ rpc = "loop"
    /\ IF current_iteration + 1 > config.iteration_count
       THEN rpc' = "finish" /\ UNCHANGED current_iteration
       ELSE /\ current_iteration' = current_iteration + 1
            /\ rpc' = IF BreaksOnAbort(should_abort) THEN "finish" ELSE "navigate"
    /\ UNCHANGED <<config, successful_swaps, should_abort, executeActionCalls,
                   simulated, failedIterations, test_result, cleaned>>
    /\ UNCHANGED RunFrame

Performs_always(c) == TRUE

\* _execute_ai_action goes on to execute_action: if self.config.dry_run: return
Performs(c) == ~c.dry_run

\* AgentOrchestrator._execute_ai_action
ExecuteAIAction ==
    IF Performs(config)
    THEN executeActionCalls' = executeActionCalls + 1 /\ UNCHANGED simulated
    ELSE simulated' = simulated + 1 /\ UNCHANGED executeActionCalls

\* a step of _execute_single_swap that asks the AI for an action: the screen
\* is captured and analysed, the recommended action goes to
\* _execute_ai_action, and the step waits for the screen when waits is TRUE
AIStep(here, next, waits) ==
    /\ rpc = here
    /\ \/ \* capture_screen or analyze_screen raises
          /\ rpc' = "failed"
          /\ UNCHANGED <<executeActionCalls, simulated>>
       \/ \* action_needed is false
          /\ rpc' = next
          /\ UNCHANGED <<executeActionCalls, simulated>>
       \/ \* the action is handled and the step ends
          /\ ExecuteAIAction
          /\ rpc' = next
       \/ \* the action is handled; execute_action or the wait for the screen raises
          /\ waits \/ Performs(config)
          /\ ExecuteAIAction
          /\ rpc' = "failed"
    /\ UNCHANGED <<config, current_iteration, successful_swaps, should_abort,
                   failedIterations, test_result, cleaned>>

\* AgentOrchestrator._navigate_to_system_status
Navigate ==
    /\ AIStep("navigate", "select", TRUE)
    /\ UNCHANGED RunFrame

\* AgentOrchestrator._select_target_network
Select ==
    /\ AIStep("select", "initiate", TRUE)
    /\ UNCHANGED RunFrame

\* AgentOrchestrator._initiate_controller_swap
Initiate ==
    /\ AIStep("initiate", "wait", FALSE)
    /\ UNCHANGED RunFrame

\* AgentOrchestrator._wait_for_swap_completion
WaitForCompletion ==
    /\ rpc = "wait"
    /\ rpc' \in {"check", "failed"}
    /\ UNCHANGED <<config, current_iteration, successful_swaps, should_abort,
                   executeActionCalls, simulated, failedIterations, test_result, cleaned>>
    /\ UNCHANGED RunFrame

\* AgentOrchestrator._verify_swap_success, and successful_swaps += 1 after it
VerifySwap ==
    /\ rpc = "check"
    /\ \/ rpc' = "loop" /\ successful_swaps' = successful_swaps + 1
       \/ rpc' = "failed" /\ UNCHANGED successful_swaps
    /\ UNCHANGED <<config, current_iteration, should_abort, executeActionCalls,
                   simulated, failedIterations, test_result, cleaned>>
    /\ UNCHANGED RunFrame

\* except Exception as e in _execute_swap_test
IterationFailed ==
    /\ rpc = "failed"
    /\ failedIterations' = failedIterations + 1
    /\ rpc' = IF config.stop_on_error THEN "finish" ELSE "recover"
    /\ UNCHANGED <<config, current_iteration, successful_swaps, should_abort,
                   executeActionCalls, simulated, test_result, cleaned>>
    /\ UNCHANGED RunFrame

\* AgentOrchestrator._attempt_recovery; what it raises leaves _execute_swap_test
Recover ==
    /\ rpc = "recover"
    /\ \/ \* capture_screen or analyze_screen raises
          /\ Fail("recovery failed")
          /\ UNCHANGED <<executeActionCalls, simulated>>
       \/ \* recovery_possible is false
          /\ rpc' = "loop"
          /\ UNCHANGED <<executeActionCalls, simulated, test_result>>
       \/ \* the recovery action is handled
          /\ ExecuteAIAction
          /\ rpc' = "loop"
          /\ UNCHANGED test_result
       \/ \* the recovery action is handled and execute_action raises
          /\ Performs(config)
          /\ ExecuteAIAction
          /\ Fail("recovery failed")
    /\ UNCHANGED <<config, current_iteration, successful_swaps, should_abort,
                   failedIterations, cleaned>>
    /\ UNCHANGED RunFrame

AllSwapsCompleted_some(swaps, c) == swaps >= 1

\* if successful_swaps == self.config.iteration_count
AllSwapsCompleted(swaps, c) == swaps = c.iteration_count

\* the TestResult of _execute_swap_test, reported by run()
FinishSwapTest ==
    /\ rpc = "finish"
    /\ test_result' =
          IF AllSwapsCompleted(successful_swaps, config)
          THEN [success |-> TRUE, error_message |-> "none",
                iterations_completed |-> successful_swaps, returned |-> FALSE]
          ELSE [success |-> FALSE, error_message |-> "Failed after some iterations",
                iterations_completed |-> successful_swaps, returned |-> FALSE]
    /\ rpc' = "cleanup"
    /\ UNCHANGED <<config, current_iteration, successful_swaps, should_abort,
                   executeActionCalls, simulated, failedIterations, cleaned>>
    /\ UNCHANGED RunFrame

\* finally: await self._cleanup_modules(), then run() returns
Cleanup ==
    /\ rpc = "cleanup"
    /\ cleaned' = TRUE
    /\ test_result' = [test_result EXCEPT !.returned = TRUE]
    /\ rpc' = "done"
    /\ UNCHANGED <<config, current_iteration, successful_swaps, should_abort,
                   executeActionCalls, simulated, failedIterations>>
    /\ UNCHANGED RunFrame

\* something outside run() sets orchestrator.should_abort
Abort ==
    /\ rpc \notin {"off", "exit", "created", "done"}
    /\ ~should_abort
    /\ should_abort' = TRUE
    /\ UNCHANGED <<config, rpc, current_iteration, successful_swaps, executeActionCalls,
                   simulated, failedIterations, test_result, cleaned>>
    /\ UNCHANGED RunFrame

InitRun ==
    /\ AgentInit
    /\ opc = "off"
    /\ max_actions = 0
    /\ actions_taken = 0
    /\ user_input = ""
    /\ result = NoResult
    /\ continueCalls = 0
    /\ autoplay = FALSE
    /\ stop = "none"
    /\ oneActionTurns = TRUE
    /\ shotAttempts = 0
    /\ consulted = NoConsultation
    /\ ScalerInit(scale_dimensions, <<1920, 1080>>)
    /\ ToolsInit(<<>>)
    /\ CoreInit

NextRun ==
    \/ CreateConfig
    \/ StartRun
    \/ InitializeModules
    \/ VerifyReady
    \/ IterationHead
    \/ Navigate
    \/ Select
    \/ Initiate
    \/ WaitForCompletion
    \/ VerifySwap
    \/ IterationFailed
    \/ Recover
    \/ FinishSwapTest
    \/ Cleanup
    \/ Abort

SpecRun == InitRun /\ [][NextRun]_vars

\* ------------------------------------------------------------ properties
IsComputerCallOutput(inp) == inp.type = "computer_call_output"

\* call ids of the computer call outputs in a list of inputs, in order
OutputCallIds(ins) ==
    LET outs == SelectSeq(ins, IsComputerCallOutput)
    IN  [i \in 1..Len(outs) |-> outs[i].call_id]

\* call ids of the computer calls of a Turn, in order
ComputerCallIds(r) ==
    LET items == SelectSeq(r.output, IsComputerCall)
    IN  [i \in 1..Len(items) |-> items[i].call_id]

\* how often the Computer ran the action extracted from call c of Turn t
ExecutionsOf(t, c) ==
    Cardinality({i \in DOMAIN executed : executed[i].turn = t /\ executed[i].src = c})

Retried == {"RateLimitError", "InternalServerError"}

\* the seconds a rate limit message encodes as "Please try again in Ns", -1 if none
EncodedSeconds(m) ==
    IF m = [phrase |-> TRUE, digits |-> <<7>>, unit |-> "s"] THEN 7
    ELSE IF m = [phrase |-> TRUE, digits |-> <<1, 2>>, unit |-> "s"] THEN 12
    ELSE -1

\* continue_task has handled every output item of previous_response
LoopOverItemsDone ==
    pc = "items" /\ itemIdx > Len(previous_response.output)

\* C1 (as stated): when the Turn holds N >= 1 pending computer calls, one
\* continue_task() handles exactly one of them: at the remote call exactly one
\* computer call output has been built.
C1_OneCallPerContinue ==
    (LoopOverItemsDone /\ Len(ComputerCallIds(previous_response)) >= 1)
        => Len(OutputCallIds(inputs)) = 1

\* C1 (amended): one continue_task() handles every pending computer call of the
\* Turn: when the loop over the output items is done, one output has been
\* built per pending call, in the order of the calls, each referencing its
\* own call.
C1_EveryCallHandled ==
    LoopOverItemsDone => OutputCallIds(inputs) = ComputerCallIds(previous_response)

C1_Witness ==
    /\ LoopOverItemsDone
    /\ Len(ComputerCallIds(previous_response)) = 2
    /\ Len(OutputCallIds(inputs)) = 2

\* C2: the action of a given pending computer call is executed on the Computer
\* at most once, over any sequence of start_task/continue_task calls.
C2_ExecutedAtMostOnce ==
    \A i \in DOMAIN executed : ExecutionsOf(executed[i].turn, executed[i].src) <= 1

\* C3: one continue_task() makes at most 10 remote calls, and when all 10 fail
\* with a rate limit or internal server error the error of the 10th attempt
\* is what continue_task() raises.
C3_RetryBudget ==
    /\ calls <= 10
    /\ (pc = "idle" /\ calls = 10 /\ lastErr \in Retried) => outcome = lastErr

C3_Witness ==
    pc = "idle" /\ calls = 10 /\ outcome = "InternalServerError"

\* C4: the attempt after a rate limit error sleeps the seconds encoded in the
\* error message, and 10 seconds when the message encodes none.
C4_RateLimitWait ==
    [][(calls' = calls + 1 /\ lastErr = "RateLimitError")
          => SleepBeforeCall = (IF EncodedSeconds(lastReply.message) >= 0
                                THEN EncodedSeconds(lastReply.message)
                                ELSE 10)]_vars

\* a third attempt is about to sleep the 7 seconds of the rate limit error
\* of the second
C4_Witness ==
    /\ pc = "attempt" /\ calls = 2 /\ lastErr = "RateLimitError"
    /\ EncodedSeconds(lastReply.message) = 7
    /\ SleepBeforeCall = 7

\* C5: the attempt after an internal server error is made with a sleep of 0.
C5_NoWaitAfterServerError ==
    [][(calls' = calls + 1 /\ lastErr = "InternalServerError") => SleepBeforeCall = 0]_vars

\* C6 (as stated): when continue_task() raises an error that is neither a rate
\* limit nor an internal server error, exactly one remote call has been made.
C6_ExactlyOneCall ==
    (pc = "idle" /\ outcome = "APIConnectionError") => calls = 1

\* C6 (amended): an error that is neither a rate limit nor an internal server
\* error ends continue_task() at once with that error: the failing call is the
\* last remote call of the invocation, whatever budget remains.
C6_NoRetryOfOtherError ==
    lastErr = "APIConnectionError"
        => (pc = "idle" /\ outcome = "APIConnectionError")

C6_Witness ==
    lastErr = "APIConnectionError" /\ calls = 3 /\ pc = "idle"

\* C7: a response whose status is not "completed" makes continue_task() raise,
\* is not retried, and the run is not reported as a success.
C7_NotCompletedRaises ==
    (lastReply.kind = "response" /\ lastReply.status # "completed")
        => /\ pc = "idle"
           /\ outcome = "AssertionError"
           /\ opc \in {"await", "done"}
           /\ (opc = "done" => ~result.success)

C7_Witness ==
    /\ lastReply.status = "in_progress"
    /\ outcome = "AssertionError"
    /\ opc = "done"
    /\ ~result.success

\* C8: whenever a current Turn exists its completion status is "completed".
C8_TurnIsCompleted ==
    response # None => response.status = "completed"

\* C9: after a continue_task() whose remote call failed, the Turn that was
\* current before the call is still the current Turn.
C9_TurnSurvivesFailure ==
    (pc = "idle" /\ outcome \in (Retried \cup {"APIConnectionError"})
        /\ previous_response_id # 0)
        => response.id = previous_response_id

\* C10: with max_actions = 3 and one pending action per Turn the run halts at
\* the limit after exactly 3 executed actions, is not reported as a success,
\* and makes no 4th continue_task() call.
C10_HaltsAfterThree ==
    (opc = "done" /\ max_actions = 3 /\ oneActionTurns /\ stop = "limit")
        => /\ executedCount = 3
           /\ ~result.success
           /\ continueCalls <= 3

\* actions still allowed by max_actions
Budget == IF actions_taken < max_actions THEN max_actions - actions_taken ELSE 0

\* at the head of the loop, the loop can only be left
ExitOnly ==
    \/ ~(actions_taken < max_actions)
    \/ user_input = "" /\ requires_user_input(response)

\* steps one iteration of the loop can take, and more
IterationSpan == RetryBudget + MaxItems + 8

\* a measure of the work execute_instructions() has left: the iterations
\* the budget allows, then within an iteration the items to handle, the
\* attempts the retry loop has left and the loop body
Rank ==
    CASE opc = "done"  -> 0
      [] opc = "final" -> 1
      [] opc = "idle"  -> (MaxActionsBound + 2) * IterationSpan
      [] opc = "loop"  -> IF ExitOnly THEN 2
                          ELSE Budget * IterationSpan + IterationSpan - 1
      [] opc = "await" ->
            Budget * IterationSpan
            + (CASE pc = "idle"    -> 3
                 [] pc = "attempt" -> 4 + retry
                 [] pc = "items"   -> 5 + RetryBudget
                                        + (Len(previous_response.output) + 1 - itemIdx))

\* C11: the loop of execute_instructions() terminates, and it makes at most
\* one continue_task() call per iteration and at most max_actions in all.
\* Termination: every step lowers Rank, a natural number, and a step can be
\* taken in every state but the final one, so a run in which the steps that
\* can be taken are taken ends, with the result returned.
C11_LoopTerminates ==
    /\ [](continueCalls <= max_actions)
    /\ [](Rank \in Nat /\ (opc # "done" => ENABLED NextOrch))
    /\ [][Rank' < Rank]_vars
    /\ [][continueCalls' # continueCalls
             => (continueCalls' = continueCalls + 1 /\ opc = "loop" /\ opc' = "await")]_vars

\* the loop ran max_actions = 3 iterations, one continue_task() call each
C11_Witness ==
    opc = "done" /\ max_actions = 3 /\ continueCalls = 3 /\ stop = "limit"

C13_FailedResult ==
    (opc = "done" /\ stop = "exception")
        => /\ result.returned
           /\ ~result.success
           /\ result.actions_taken = actions_taken
           /\ shotAttempts >= 1

\* ratio = min(tw / W, th / H) of a target size and a capture size, as the
\* pair <<numerator, denominator>>
MinRatio(target, capture) ==
    IF target[1] * capture[2] <= target[2] * capture[1]
    THEN <<target[1], capture[1]>>
    ELSE <<target[2], capture[2]>>

\* round(x / r) for x >= 0 and a positive ratio r (halves go up)
RoundedQuotient(x, r) == (2 * x * r[2] + r[1]) \div (2 * r[1])

\* the Computer received a pointer call
PointerCall == forwarded.method \in {"click", "double_click", "move", "scroll", "drag"}

\* the latest dimensions() result of a Scaler built without a size over a
\* Computer that reported (1920,1080)
SizeOfFullHd ==
    /\ configured = NoSize
    /\ scaledFrom = <<1920, 1080>>
    /\ dimsLog # <<>>

\* C14 (as stated): with a Computer of physical size (1920,1080) and no
\* configured size, dimensions() returns (2048,1152).
C14_ReturnsStretchedSize ==
    SizeOfFullHd => dimsLog[Len(dimsLog)] = <<2048, 1152>>

\* C14 (amended): with a Computer of physical size (1920,1080) and no
\* configured size, dimensions() returns (1920,1080): a size that fits within
\* 2048 is returned as it is.
C14_ReturnsFittingSize ==
    SizeOfFullHd => dimsLog[Len(dimsLog)] = <<1920, 1080>>

C14_Witness == SizeOfFullHd

\* a click at logical (100,50) reached the Computer after a screenshot of a
\* (1920,1080) screen, the Scaler having no configured size
ClickOnFullHd ==
    /\ configured = NoSize
    /\ scaledFrom = <<1920, 1080>>
    /\ forwarded.method = "click"
    /\ forwarded.logical = << <<100, 50>> >>
    /\ forwarded.shown.screen = <<1920, 1080>>

\* C15 (as stated): that click reaches the Computer at physical (93,47),
\* within one pixel on each axis.
C15_ClickAt93By47 ==
    ClickOnFullHd
        => /\ Abs(forwarded.path[1][1] - 93) <= 1
           /\ Abs(forwarded.path[1][2] - 47) <= 1

\* C15 (amended): that click reaches the Computer at physical (100,50): the
\* logical size is the physical one and the ratio is 1.
C15_ClickAt100By50 ==
    ClickOnFullHd => forwarded.path = << <<100, 50>> >>

C15_Witness == ClickOnFullHd

\* C16: after a screenshot of size (W,H) with target (tw,th), every point
\* that a pointer method passes to the Computer is round(x/ratio),
\* round(y/ratio) with ratio = min(tw/W, th/H), within 1 pixel per axis, and
\* a path keeps its length and its order.
C16_PointsWithinOnePixel ==
    (PointerCall /\ forwarded.shown # NoShot)
        => LET r == MinRatio(forwarded.shown.canvas, forwarded.shown.screen)
           IN  /\ Len(forwarded.path) = Len(forwarded.logical)
               /\ \A i \in DOMAIN forwarded.logical : \A k \in 1..2 :
                     Abs(forwarded.path[i][k]
                         - RoundedQuotient(forwarded.logical[i][k], r)) <= 1

\* a drag of two different points on a (1920,1080) screen shown as
\* (1000,1000), the first one at x = 125 where the double division rounds
C16_Witness ==
    /\ forwarded.method = "drag"
    /\ forwarded.logical = << <<125, 225>>, <<100, 50>> >>
    /\ forwarded.path = << <<239, 431>>, <<192, 96>> >>
    /\ forwarded.shown.screen = <<1920, 1080>>
    /\ forwarded.shown.canvas = <<1000, 1000>>

\* C17: a pointer action before any screenshot fails and forwards no action
\* to the Computer.
C17_NoPointerCallBeforeScreenshot ==
    PointerCall => forwarded.shown # NoShot

\* C18: the ratio that translates a pointer action is the ratio that resized
\* the most recent screenshot, also when the screen changed its size since.
C18_RatioOfLatestScreenshot ==
    (PointerCall /\ forwarded.shown # NoShot)
        => forwarded.ratio = forwarded.shown.ratio

\* a pointer call made after the screen changed its size since the screenshot
C18_Witness ==
    /\ PointerCall
    /\ forwarded.shown # NoShot
    /\ forwarded.physical # forwarded.shown.screen

\* C19: without a configured size, dimensions() has its longest edge within
\* 2048 and is the Computer's size with both edges scaled by one factor
\* (2048 / longest, or 1 when the size fits) and rounded down.
C19_ScaledToFit ==
    (configured = NoSize /\ scaledFrom # NoSize)
        => LET longest == Longest(scaledFrom[1], scaledFrom[2])
           IN  /\ Longest(size[1], size[2]) <= 2048
               /\ IF longest <= 2048
                  THEN size = scaledFrom
                  ELSE \A k \in 1..2 :
                          /\ size[k] * longest <= scaledFrom[k] * 2048
                          /\ scaledFrom[k] * 2048 < (size[k] + 1) * longest

\* a (1080,2400) screen scaled to (921,2048): 921.6 rounded down
C19_Witness ==
    /\ configured = NoSize
    /\ scaledFrom = <<1080, 2400>>
    /\ size = <<921, 2048>>

\* C20: two dimensions() calls without a screenshot between them return the
\* same size.
C20_DimensionsIdempotent ==
    Len(dimsLog) = 2 => dimsLog[1] = dimsLog[2]

\* two reads of a configured size
C20_Witness ==
    /\ Len(dimsLog) = 2
    /\ configured = <<1024, 768>>
    /\ shot # NoShot

\* C21: type, wait and keypress hand their arguments to the Computer
\* unchanged, in exactly one call, and leave the Scaler's logical size and
\* recorded screen size as they were; scroll hands on its deltas and click its
\* button unchanged.
C21_PassThrough ==
    [][received' # received
          => /\ received' = received + 1
             /\ forwarded'.method \in {"type", "wait", "keypress"}
                   => /\ forwarded'.args = forwarded'.given
                      /\ forwarded'.path = <<>>
                      /\ size' = size
                      /\ screen_width' = screen_width
                      /\ screen_height' = screen_height
             /\ forwarded'.method \in {"scroll", "click"}
                   => forwarded'.args = forwarded'.given
             /\ forwarded'.method = "click"
                   => forwarded'.button = forwarded'.given[1]]_vars

\* a key combination went through a Scaler that had taken a screenshot
C21_Witness ==
    /\ forwarded.method = "keypress"
    /\ forwarded.args = << <<"ctrl", "c">> >>
    /\ forwarded.shown # NoShot
    /\ received = 2

\* a Turn without computer call and function call that ends with an
\* assistant message
QuietTurn(r) ==
    /\ r # None
    /\ Len(r.output) > 0
    /\ \A i \in DOMAIN r.output : r.output[i].type \notin {"computer_call", "function_call"}
    /\ r.output[Len(r.output)].type = "message"
    /\ r.output[Len(r.output)].role = "assistant"

\* a step of a continue_task("") that handles the Turn r
ContinuesQuietly ==
    \/ pc = "idle" /\ pc' = "items" /\ user_message' = "" /\ QuietTurn(response)
    \/ pc = "items" /\ user_message = "" /\ QuietTurn(previous_response)

\* C22: a Turn without pending computer call and function call whose last
\* item is an assistant message requires user input, and no step of a
\* continue_task("") on it executes an action on the Computer, captures a
\* screenshot or invokes a tool handler
C22_QuietTurnExecutesNothing ==
    /\ [](QuietTurn(response) => requires_user_input(response))
    /\ [][ContinuesQuietly
            => /\ executedCount' = executedCount
               /\ \A i \in DOMAIN executed' : i \in DOMAIN executed /\ executed'[i] = executed[i]
               /\ screenshots = 0 /\ screenshots' = 0
               /\ handled = <<>> /\ handled' = <<>>]_vars

\* the for loop of a continue_task("") has gone through a reasoning item and
\* an assistant message, with a tool registered
C22_Witness ==
    /\ pc = "items"
    /\ user_message = ""
    /\ QuietTurn(previous_response)
    /\ Len(previous_response.output) = 2
    /\ previous_response.output[1].type = "reasoning"
    /\ itemIdx = 3
    /\ executedCount = 0
    /\ tools # <<>>

\* the kind of output that answers an output item, "none" for an item that is no call
AnswerKind(item) ==
    IF item.type = "computer_call" THEN "computer_call_output"
    ELSE IF item.type = "function_call" THEN "function_call_output"
    ELSE "none"

RECURSIVE CallAnswers(_)
\* kind and call id of the outputs that answer the calls of out, in item order
CallAnswers(out) ==
    IF out = <<>>
    THEN <<>>
    ELSE LET front == CallAnswers(SubSeq(out, 1, Len(out) - 1))
             item  == out[Len(out)]
         IN  IF AnswerKind(item) = "none"
             THEN front
             ELSE Append(front, <<AnswerKind(item), item.call_id>>)

\* kind and call id of each input
KindsAndIds(ins) == [i \in DOMAIN ins |-> <<ins[i].type, ins[i].call_id>>]

\* the inputs of continue_task(msg) on the Turn r
ExpectedInputs(r, msg) ==
    (IF r = None THEN <<>> ELSE CallAnswers(r.output))
       \o (IF msg # "" THEN << <<"message", 0>> >> ELSE <<>>)

\* C23: the inputs continue_task submits are the outputs of the Turn's calls
\* in item order, each with the id of its call, then the user message when
\* it is non-empty, and every request of the invocation carries them and the
\* id of the previous Turn (none, written 0, without a Turn)
C23_SubmittedInputs ==
    /\ [][pc = "items" /\ pc' = "attempt"
            => /\ KindsAndIds(inputs') = ExpectedInputs(previous_response, user_message)
               /\ user_message # "" => inputs'[Len(inputs')].content = user_message
               /\ previous_response_id' =
                      IF previous_response = None THEN 0 ELSE previous_response.id]_vars
    /\ [][calls' # calls /\ calls' # 0
            => /\ pc = "attempt"
               /\ calls' = calls + 1
               /\ pc' = "attempt"
                     => inputs' = inputs /\ previous_response_id' = previous_response_id]_vars

\* the retry loop is about to submit the outputs of a function call and a
\* computer call followed by the user message
C23_Witness ==
    /\ pc = "attempt"
    /\ Len(inputs) = 3
    /\ inputs[1].type = "function_call_output"
    /\ inputs[2].type = "computer_call_output"
    /\ inputs[3].content = "go"

\* an item that continue_task cannot handle with the tools of reg
Unsupported(reg, item) ==
    \/ /\ item.type = "function_call"
       /\ \A i \in DOMAIN reg : reg[i].name # item.name
    \/ item.type \notin {"computer_call", "function_call", "reasoning", "message"}

\* the positions of the unsupported items of the Turn r
UnsupportedAt(reg, r) ==
    IF r = None THEN {} ELSE {i \in DOMAIN r.output : Unsupported(reg, r.output[i])}

\* C24: a continue_task on a Turn with a function call of an unregistered
\* tool or an item of an unknown kind never goes past the first such item,
\* leaves the for loop only by raising, and makes no remote-model call
C24_UnsupportedItemRaises ==
    /\ [](pc = "items"
            => \A i \in UnsupportedAt(tools, previous_response) : itemIdx <= i)
    /\ [][pc = "items" /\ UnsupportedAt(tools, previous_response) # {}
            => /\ calls' = 0
               /\ \/ pc' = "items"
                  \/ /\ pc' = "idle"
                     /\ outcome' \in {"ValueError", "NotImplementedError"}
                     /\ response' = response]_vars
    /\ [](outcome \in {"ValueError", "NotImplementedError"} => calls = 0)

\* continue_task raised for the call of a tool that is not registered while
\* another tool is, after it had executed the computer call before it
C24_Witness ==
    /\ pc = "idle"
    /\ outcome = "ValueError"
    /\ tools # <<>>
    /\ executedCount = 1
    /\ calls = 0
    /\ response.output[2].type = "function_call"

\* the names registered by the add_tool calls of log
NamesOf(log) == {log[i].name : i \in DOMAIN log}

\* the first and the last add_tool call of log for the name n
FirstIndex(log, n) ==
    CHOOSE i \in DOMAIN log :
        log[i].name = n /\ \A j \in DOMAIN log : log[j].name = n => i <= j

LastIndex(log, n) ==
    CHOOSE i \in DOMAIN log :
        log[i].name = n /\ \A j \in DOMAIN log : log[j].name = n => j <= i

\* g lists the computer tool, then one descriptor per name of log, the names
\* in the order of their first registration, each descriptor that of the
\* name's last registration
ListsRegistered(g, log) ==
    /\ Len(g) = 1 + Cardinality(NamesOf(log))
    /\ g[1].type = "computer_use_preview"
    /\ \A k \in 2..Len(g) :
         /\ g[k].name \in NamesOf(log)
         /\ g[k] = log[LastIndex(log, g[k].name)].tool
         /\ \A j \in 2..(k - 1) :
                FirstIndex(log, g[j].name) < FirstIndex(log, g[k].name)

\* C25: after any add_tool calls get_tools returns the computer tool first,
\* then one descriptor per registered name in registration order, the
\* descriptor and the handler in effect being those of the last registration
C25_ToolsInRegistrationOrder ==
    /\ [](ListsRegistered(get_tools(tools, size), registered))
    /\ [](\A n \in NamesOf(registered) :
            tools[HandlerOf(tools, n)].func = registered[LastIndex(registered, n)].func)
    /\ [][lastTools' # lastTools
            => /\ ListsRegistered(lastTools', registered)
               /\ lastTools'[1] = computer_tool(size')]_vars

\* get_tools after lookup, notify and lookup again were registered
C25_Witness ==
    /\ Len(registered) = 3
    /\ registered[1].name = "lookup"
    /\ registered[2].name = "notify"
    /\ registered[3] = [name |-> "lookup", tool |-> Descriptor("lookup", 2), func |-> 2]
    /\ registered[1].func = 1
    /\ lastTools = <<computer_tool(size), Descriptor("lookup", 2), registered[2].tool>>

\* the smaller of two numbers
Least(a, b) == IF a <= b THEN a ELSE b

\* the last k entries of the sequence q, in its order
LastOf(q, k) == SubSeq(q, Len(q) - k + 1, Len(q))

\* C27: after any add_entry calls the history holds at most max_history
\* entries, the most recently added ones in insertion order
C27_HistoryBounded ==
    /\ Len(history) <= max_history
    /\ history = LastOf(added, Least(max_history, Len(added)))

\* four entries were added to a ContextManager that keeps two
C27_Witness ==
    /\ max_history = 2
    /\ Len(added) = 4
    /\ history = <<added[3], added[4]>>

\* C28: for every count >= 0 get_recent_history(count) returns exactly
\* min(count, len(history)) entries, the last ones added, in insertion order
C28_RecentHistory ==
    [][recent' # recent
          => /\ Len(recent'.entries) = Least(recent'.count, Len(history))
             /\ recent'.entries = LastOf(history, Least(recent'.count, Len(history)))]_vars

\* C26: with dry_run set no step of run() invokes execute_action
C26_DryRunExecutesNothing ==
    /\ [](config.dry_run => executeActionCalls = 0)
    /\ [][config.dry_run /\ config'.dry_run
            => executeActionCalls' = executeActionCalls]_vars

\* a dry run has ended in which navigation, selection, swap initiation and
\* the recovery after a failed iteration had their actions simulated
C26_Witness ==
    /\ config.dry_run
    /\ rpc = "done"
    /\ failedIterations = 1
    /\ successful_swaps = 1
    /\ simulated = 7
    /\ executeActionCalls = 0

\* C29: creating a Config with all default field values succeeds and yields
\* scenario "swap_test", iteration_count 1 and dry_run false
C29_DefaultConfigCreated ==
    configArgs = DefaultConfig
       => /\ configRaised = "none"
          /\ config # NoConfig
          /\ rpc = "created" => /\ config.scenario = "swap_test"
                                /\ config.iteration_count = 1
                                /\ config.dry_run = FALSE

\* C30: the action executed for a pending computer call is the action that
\* call carries, its kind and its parameters, also in a Turn with several
\* computer calls
C30_ExecutesOwnAction ==
    pc = "items"
       => \A i \in DOMAIN executed :
             executed[i].turn = previous_response.id
                => LET call == previous_response.output[executed[i].item]
                   IN  /\ executed[i].action = call.action.type
                       /\ executed[i].action_args = call.action.args

\* C31: each output built by continue_task acknowledges exactly the safety
\* checks pending on the call it references, none when that call has none,
\* and never those of another call of the Turn
C31_AcknowledgesOwnChecks ==
    pc = "items"
       => \A i \in DOMAIN inputs :
             inputs[i].type = "computer_call_output"
                => inputs[i].acknowledged_safety_checks =
                      previous_response.output[inputs[i].call_id].pending_safety_checks

\* the action methods invoked while the item k of the Turn being continued
\* was handled
ExecutedFor(k) ==
    {i \in DOMAIN executed :
        executed[i].turn = previous_response.id /\ executed[i].item = k}

\* C32: within one continue_task, each computer call handled has had its
\* action executed (no action method for kind "screenshot") and then a
\* screenshot captured for its output; the remote call starts only after
\* the last of them, and no action runs while remote calls are made
C32_OrderedEvents ==
    /\ [](pc = "items"
            => /\ calls = 0
               /\ \A k \in 1..(itemIdx - 1) :
                     LET call == previous_response.output[k]
                     IN  call.type = "computer_call"
                            => /\ Cardinality(ExecutedFor(k)) =
                                     IF call.action.type = "screenshot" THEN 0 ELSE 1
                               /\ \E j \in DOMAIN inputs :
                                     /\ inputs[j].call_id = k
                                     /\ inputs[j].content = "screenshot"
               /\ screenshots = Len(inputs))
    /\ [][calls' # calls /\ calls' # 0
            => /\ pc = "attempt"
               /\ executed' = executed
               /\ executedCount' = executedCount
               /\ pc' = "attempt" => screenshots' = screenshots]_vars

\* C33: every retry attempt of one continue_task submits the same inputs
\* and the same previous id as the first, and no Computer action, screenshot
\* or tool handler runs between or after the attempts
C33_AttemptsRepeatRequest ==
    /\ [][pc = "attempt" /\ pc' = "attempt"
            => /\ inputs' = inputs
               /\ previous_response_id' = previous_response_id
               /\ screenshots' = screenshots
               /\ handled' = handled]_vars
    /\ [][pc = "attempt"
            => /\ calls' = calls + 1
               /\ executed' = executed
               /\ executedCount' = executedCount]_vars

\* the fourth attempt is due after three rate limit errors, with the
\* outputs of two computer calls to submit, handled with two action executions
C33_Witness ==
    /\ pc = "attempt"
    /\ calls = 3
    /\ retry = 7
    /\ lastErr = "RateLimitError"
    /\ Len(inputs) = 2
    /\ screenshots = 2
    /\ Len(executed) = 2
    /\ previous_response_id = 1

\* C34: with autoplay off and consent and safety checks required, every step
\* of execute_instructions that executes a pending computer call of a Turn
\* (the action method and the screenshot that follows it) comes after a loop
\* body that called the consent gate for that same Turn and got allow, and,
\* when the Turn has pending safety checks, called the safety check gate for
\* it and got allow.
ExecutesPendingCall ==
    /\ opc = "await"
    /\ pc = "items"
    /\ \/ executedCount' # executedCount
       \/ screenshots' = screenshots + 1

C34_ExecutionAfterAllow ==
    [][ExecutesPendingCall /\ ~autoplay /\ require_consent /\ safety_checks_enabled
          => /\ consulted.turn = previous_response.id
             /\ consulted.consentAsked /\ consulted.consent
             /\ pending_safety_checks(previous_response) # <<>>
                   => consulted.safetyAsked /\ consulted.safety]_vars

\* C34 witness: an action of a Turn with pending safety checks has been
\* executed after both gates were called for that Turn and allowed it
C34_Witness ==
    /\ opc = "await"
    /\ ~autoplay
    /\ pc = "items"
    /\ itemIdx > 1
    /\ executedCount >= 1
    /\ pending_safety_checks(previous_response) # <<>>
    /\ consulted.turn = previous_response.id
    /\ consulted.consentAsked /\ consulted.consent
    /\ consulted.safetyAsked /\ consulted.safety

\* C35: the actions_taken value of the ExecutionResult returned by
\* execute_instructions never exceeds max_actions, whatever the number of
\* pending actions the Turns of the run carry.
C35_ActionsWithinMaximum ==
    result.returned => result.actions_taken <= max_actions

\* C36: the result of the swap test never hides a failed iteration: success
\* is true only when all iteration_count iterations completed and none
\* failed, and as soon as one iteration failed the result has success false
\* and an error message, with stop_on_error as well as after a recovery
\* followed by successful iterations.
C36_FailureNeverSuppressed ==
    rpc \in {"cleanup", "done"}
       => /\ test_result.success
                => /\ successful_swaps = config.iteration_count
                   /\ failedIterations = 0
          /\ failedIterations >= 1
                => /\ ~test_result.success
                   /\ test_result.error_message # "none"

\* C36 witness: an iteration failed, recovery went on to a successful
\* iteration, and the swap test returned its result
C36_Witness ==
    /\ rpc = "done"
    /\ ~config.stop_on_error
    /\ failedIterations = 1
    /\ successful_swaps = 1
    /\ current_iteration = 2
    /\ test_result.returned
    /\ ~test_result.success
    /\ test_result.error_message = "Failed after some iterations"

\* C37: should_abort is looked at only between swap iterations. Once it is
\* set, the iteration in progress goes on to its end (its last step or the
\* step that raises), no later iteration begins its first step, and run()
\* returns its result only after the modules were cleaned up.
InIteration == {"navigate", "select", "initiate", "wait", "check"}

C37_AbortBetweenIterations ==
    /\ [](test_result.returned => cleaned)
    /\ [][should_abort /\ rpc \in InIteration
             => rpc' \in InIteration \cup {"loop", "failed"}]_vars
    /\ [][should_abort /\ rpc \notin InIteration => rpc' \notin InIteration]_vars

\* C37 witness: the abort signal came during the first of two iterations,
\* which completed; the second never began and run() returned after cleanup
C37_Witness ==
    /\ rpc = "done"
    /\ should_abort
    /\ config.iteration_count = 2
    /\ current_iteration = 2
    /\ successful_swaps = 1
    /\ failedIterations = 0
    /\ cleaned
    /\ test_result.returned
    /\ ~test_result.success

\* C38: when the loop of execute_instructions is left because the task
\* appears complete, the latest Turn holds no call that was never executed:
\* no computer call and no function call.
PendingCalls(r) ==
    {i \in 1..Len(r.output) : r.output[i].type \in {"computer_call", "function_call"}}

C38_CompleteLeavesNoCall ==
    stop = "complete" => PendingCalls(response) = {}

\* C39: after a screenshot of a screen of size (W, H), every logical point
\* inside the resized image pasted at the origin of the canvas (0 <= x <
\* new_width, 0 <= y < new_height) is translated by _point_to_screen_coords
\* to a point inside the screen. The two coordinates are translated
\* independently of each other, so the points of the left column and of the
\* top row of the area stand for all of its points. Where the double
\* quotient x / ratio of a point comes out just below a whole number n >= 1,
\* int() yields n - 1 instead of n, which lies inside the screen whenever n
\* does.
InsideScreen(p, w, h) == 0 <= p[1] /\ p[1] < w /\ 0 <= p[2] /\ p[2] < h

AreaEdges(area) ==
    {<<x, 0>> : x \in 0..(area[1] - 1)} \cup {<<0, y>> : y \in 0..(area[2] - 1)}

C39_ResizedAreaMapsInside ==
    [][shot' # shot
          => \A p \in AreaEdges(shot'.resized) :
                InsideScreen(point_to_screen_coords(p[1], p[2], size', screen_width',
                                                    screen_height'),
                             shot'.screen[1], shot'.screen[2])]_vars

\* C39 witness: a 1920x1080 screen was shown as a 1024x576 image on a 1024x768
\* canvas, and the last point of the image is translated to a point inside
\* the screen
C39_Witness ==
    /\ shot.screen = <<1920, 1080>>
    /\ shot.canvas = <<1024, 768>>
    /\ shot.resized = <<1024, 576>>
    /\ size = <<1024, 768>>
    /\ point_to_screen_coords(1023, 575, size, screen_width, screen_height) = <<1918, 1078>>

\* C40: the context build_context returns is self-consistent: its
\* current_goal is the goal of the scenario and the iteration the context
\* reports, after the history it reports, also when scenario and iteration
\* come from set_scenario and current_state has no such key (a context built
\* before any scenario was set or passed reports no scenario); and
\* build_context changes neither the history nor the current scenario nor the
\* current iteration.
C40_ContextSelfConsistent ==
    /\ [](context # NoContext /\ context.scenario # "None"
            => context.current_goal
                  = GoalOf(context.scenario, context.iteration, context.history))
    /\ [][context' # context
             => /\ history' = history
                /\ current_scenario' = current_scenario
                /\ cm_iteration' = cm_iteration]_vars

\* -------------------------------------------------------- specifications
Init ==
    /\ AgentInit
    /\ opc = "off"
    /\ max_actions = 0
    /\ actions_taken = 0
    /\ user_input = ""
    /\ result = NoResult
    /\ continueCalls = 0
    /\ autoplay = FALSE
    /\ stop = "none"
    /\ oneActionTurns = TRUE
    /\ shotAttempts = 0
    /\ consulted = NoConsultation
    /\ ScalerInit(scale_dimensions, <<1920, 1080>>)
    /\ ToolsInit(<<>>)
    /\ CoreInit

Next ==
    \/ StartTask
    \/ ContinueTask
    \/ HandleItem
    \/ PrepareCall
    \/ Attempt

Spec == Init /\ [][Next]_vars

====
